---- MODULE Spec2Model ----
(***************************************************************************)
(* A model of the Doc Keeper document engine (tools/doc_mcp.py): the       *)
(* knowledge root as a map from root-relative paths to file contents, the  *)
(* tools as actions on it, and the text functions they are built on.       *)
(*                                                                         *)
(* Text is modelled at the level of characters: a path, a title or a file  *)
(* content is a sequence of one-character strings, so that splitlines,     *)
(* strip, the heading regex, the substring test of the dual lock and the   *)
(* path clean-up are computed as the code computes them.                   *)
(*                                                                         *)
(* Where the code binds a local variable and uses it several times, the    *)
(* model passes the value to an operator named after the step (...At,      *)
(* ...With): TLC then evaluates it once.                                   *)
(***************************************************************************)
EXTENDS Integers, Sequences, FiniteSets, TLC

VARIABLES
    files,   \* the regular files under the knowledge root: path -> content
    dirs,    \* directories made by os.makedirs (a directory also exists
             \* when a file lies below it)
    clock,   \* datetime.now(), in whole seconds
    pc,      \* per invocation of update_knowledge_section: where it stands
    call,    \* per invocation: its arguments and the files it started from
    loc,     \* per invocation: its local variables
    last,    \* the tool call that returned last: arguments, result, and
             \* the files before and after it
    cache,   \* the outline the caller got from its last get_file_outline
    configs, \* the configuration files on disk: path -> YAML document
    loader,  \* the class ConfigLoader and the attributes of its instance
    ncalls   \* the tool calls made so far

vars == <<files, dirs, clock, pc, call, loc, last, cache, configs, loader,
          ncalls>>

(***************************************************************************)
(* Characters and strings                                                  *)
(***************************************************************************)

\* str.strip() removes these (the model's alphabet holds no other blank).
Whitespace == {" ", "\n", "\f", "\t"}

\* str.splitlines() breaks a line after each of these; "\f" stands for the
\* breaks other than "\n" (\r, \v, \f, \x1c..\x1e, \x85 and the Unicode ones).
LineBreaks == {"\n", "\f"}

Digit == <<"0", "1", "2", "3", "4", "5", "6", "7", "8", "9">>

SetMin(S) == CHOOSE x \in S : \A y \in S : x <= y

SetMax(S) == CHOOSE x \in S : \A y \in S : x >= y

\* The lower-case letter of each upper-case letter.
LowerLetters ==
    "A" :> "a" @@ "B" :> "b" @@ "C" :> "c" @@ "D" :> "d" @@ "E" :> "e" @@
    "F" :> "f" @@ "G" :> "g" @@ "H" :> "h" @@ "I" :> "i" @@ "J" :> "j" @@
    "K" :> "k" @@ "L" :> "l" @@ "M" :> "m" @@ "N" :> "n" @@ "O" :> "o" @@
    "P" :> "p" @@ "Q" :> "q" @@ "R" :> "r" @@ "S" :> "s" @@ "T" :> "t" @@
    "U" :> "u" @@ "V" :> "v" @@ "W" :> "w" @@ "X" :> "x" @@ "Y" :> "y" @@
    "Z" :> "z"

\* str.lower() on one character
LowerChar(c) == IF c \in DOMAIN LowerLetters THEN LowerLetters[c] ELSE c

\* s.lower()
Lower(s) == [i \in 1..Len(s) |-> LowerChar(s[i])]

\* s without what lies outside its first and last characters of keep.
StripTo(s, keep) ==
    IF keep = {} THEN <<>> ELSE SubSeq(s, SetMin(keep), SetMax(keep))

\* s.strip()
Strip(s) == StripTo(s, {i \in 1..Len(s) : s[i] \notin Whitespace})

\* sub in s
Contains(sub, s) ==
    \E i \in 0..(Len(s) - Len(sub)) : SubSeq(s, i + 1, i + Len(sub)) = sub

\* s.startswith(pre)
StartsWith(s, pre) ==
    Len(pre) <= Len(s) /\ SubSeq(s, 1, Len(pre)) = pre

\* s.endswith(suf)
EndsWith(s, suf) ==
    Len(suf) <= Len(s) /\ SubSeq(s, Len(s) - Len(suf) + 1, Len(s)) = suf

RECURSIVE SplitAt(_, _, _)
\* The pieces of s between its characters of seps; with keep_last, the
\* piece after the last of them also when it is empty.
SplitAt(s, seps, keep_last) ==
    IF s = <<>> THEN (IF keep_last THEN <<s>> ELSE <<>>)
    ELSE IF \A i \in 1..Len(s) : s[i] \notin seps THEN <<s>>
    ELSE <<SubSeq(s, 1, SetMin({i \in 1..Len(s) : s[i] \in seps}) - 1)>>
         \o SplitAt(SubSeq(s, SetMin({i \in 1..Len(s) : s[i] \in seps}) + 1, Len(s)),
                    seps, keep_last)

\* s.splitlines(): no line for the empty rest after a final line break.
SplitLines(s) == SplitAt(s, LineBreaks, FALSE)

\* s.split(sep) for a one-character sep: the empty pieces are kept.
Split(s, sep) == SplitAt(s, {sep}, TRUE)

RECURSIVE Join(_, _)
\* sep.join(parts)
Join(sep, parts) ==
    IF parts = <<>> THEN <<>>
    ELSE IF Len(parts) = 1 THEN parts[1]
    ELSE parts[1] \o sep \o Join(sep, Tail(parts))

\* s.replace(a, b) for one-character a and b
ReplaceChar(s, a, b) == [i \in 1..Len(s) |-> IF s[i] = a THEN b ELSE s[i]]

RECURSIVE Str(_)
\* str(n) for n >= 0
Str(n) ==
    IF n < 10 THEN <<Digit[n + 1]>>
    ELSE Str(n \div 10) \o <<Digit[(n % 10) + 1]>>

(***************************************************************************)
(* Headings and the outline                                                *)
(***************************************************************************)

\* The regex of the heading lines, ^(#{1,6})\s+(.+)$, takes one to six "#".
MaxLevel == 6

\* The match of the regex on the stripped line s that starts with h "#":
\* len(group(1)) and group(2).strip().
HeadingParts(s, h, ok) ==
    [match |-> ok,
     level |-> IF ok THEN h ELSE 0,
     title |-> IF ok THEN Strip(SubSeq(s, h + 1, Len(s))) ELSE <<>>]

\* After strip() the text ends with a non-blank, so once a blank follows the
\* "#"s group(2) is never empty; a seventh "#" stands where the blank must,
\* and nothing matches.
HeadingHashes(s, h) ==
    HeadingParts(s, h,
        h >= 1 /\ h <= MaxLevel /\ h < Len(s) /\ s[h + 1] \in Whitespace)

\* re.match(r'^(#{1,6})\s+(.+)$', line.strip())
HeadingMatch(line) ==
    HeadingHashes(Strip(line),
        SetMin({i \in 1..(Len(Strip(line)) + 1) :
                   i = Len(Strip(line)) + 1 \/ Strip(line)[i] # "#"}) - 1)

\* counters = [0] * 7
ZeroCounters == [j \in 0..MaxLevel |-> 0]

\* A mutant of Bump: the deeper counters are not reset.
BumpNoReset(counters, level) ==
    [j \in 0..MaxLevel |-> IF j = level THEN counters[j] + 1 ELSE counters[j]]

\* A mutant of Bump: the counter of the level starts again at 1.
BumpRestart(counters, level) ==
    [j \in 0..MaxLevel |->
        IF j = level THEN 1
        ELSE IF j > level THEN 0
        ELSE counters[j]]

\* counters[level] += 1; for j in range(level + 1, 7): counters[j] = 0
Bump(counters, level) ==
    [j \in 0..MaxLevel |->
        IF j = level THEN counters[j] + 1
        ELSE IF j > level THEN 0
        ELSE counters[j]]

\* ".".join([str(c) for c in counters[1:level+1]])
IdOf(counters, level) ==
    Join(<<".">>, [k \in 1..level |-> Str(counters[k])])

\* A mutant of OutlineNode: the lines are counted from 0.
OutlineNodeFromZero(m, i, counters) ==
    [id |-> IdOf(counters, m.level), title |-> m.title, level |-> m.level,
     line_start |-> i - 1]

\* outline.append({...}) for the heading m at line i, the counters updated
OutlineNode(m, i, counters) ==
    [id |-> IdOf(counters, m.level), title |-> m.title, level |-> m.level,
     line_start |-> i]

RECURSIVE OutlineFrom(_, _, _)
\* The body of the loop of _get_outline_tree at line i, m its match.
OutlineAt(lines, i, counters, m) ==
    IF ~m.match THEN OutlineFrom(lines, i + 1, counters)
    ELSE <<OutlineNode(m, i, Bump(counters, m.level))>>
         \o OutlineFrom(lines, i + 1, Bump(counters, m.level))

\* The loop of _get_outline_tree from line i on (i counts from 1, where
\* enumerate counts from 0: line_start, i + 1 in the code, is i here).
OutlineFrom(lines, i, counters) ==
    IF i > Len(lines) THEN <<>>
    ELSE OutlineAt(lines, i, counters, HeadingMatch(lines[i]))

\* _get_outline_tree(content)
GetOutlineTree(content) == OutlineFrom(SplitLines(content), 1, ZeroCounters)

(***************************************************************************)
(* Paths and the file system                                               *)
(*                                                                         *)
(* A file is named by its normalised path relative to the knowledge root   *)
(* (the current directory of the process): os.path.abspath of              *)
(* KNOWLEDGE_ROOT joined with that path.  The root itself is <<>>.         *)
(***************************************************************************)

Slash == <<"/">>

DotDot == <<".", ".">>

\* ".history", the last component of HISTORY_DIR
HistoryName == <<".", "h", "i", "s", "t", "o", "r", "y">>

SnapSuffix == <<".", "s", "n", "a", "p">>

MdSuffix == <<".", "m", "d">>

\* s.lstrip("/\\")
LStripSeparators(s) ==
    SubSeq(s, SetMin({i \in 1..(Len(s) + 1) :
                         i = Len(s) + 1 \/ s[i] \notin {"/", "\\"}}), Len(s))

\* path.strip().lstrip("/\\")
CleanPath(path) == LStripSeparators(Strip(path))

\* os.path.normpath of a relative path without "..": the empty and the "."
\* components go.
NormPath(p) ==
    Join(Slash, SelectSeq(Split(p, "/"), LAMBDA c : c # <<>> /\ c # <<".">>))

\* The last of the components parts.
LastOf(parts) == parts[Len(parts)]

\* os.path.basename(p)
Basename(p) == LastOf(Split(p, "/"))

\* The components parts but the last, joined.
AllButLast(parts) == Join(Slash, SubSeq(parts, 1, Len(parts) - 1))

\* The directory of a normalised path (<<>> for a file in the root).
Dirname(p) == AllButLast(Split(p, "/"))

\* A mutant of ValidateClean: ".." is let through.
ValidateCleanNoCheck(clean) ==
    [kind |-> "ok", clean |-> clean, abs |-> NormPath(clean)]

\* _validate_path from the cleaned path on: raises ValueError when ".."
\* occurs anywhere in it.  Without ".." and without a leading separator the
\* joined path always lies below the root, so the startswith test cannot
\* fail.
ValidateClean(clean) ==
    IF Contains(DotDot, clean)
    THEN [kind |-> "PathTraversal", clean |-> clean, abs |-> <<>>]
    ELSE [kind |-> "ok", clean |-> clean, abs |-> NormPath(clean)]

\* _validate_path(path)
ValidatePath(path) == ValidateClean(CleanPath(path))

\* Whether abs is a directory of the tree fs with the made directories ds.
IsDir(fs, ds, abs) ==
    \/ abs = <<>>
    \/ \E d \in ds : d = abs \/ StartsWith(d, abs \o Slash)
    \/ \E f \in DOMAIN fs : StartsWith(f, abs \o Slash)

\* os.path.exists(abs)
Exists(fs, ds, abs) == abs \in DOMAIN fs \/ IsDir(fs, ds, abs)

\* The files os.walk shows below directories whose path does not contain
\* ".history", with the base name target_name.
Candidates(fs, target_name) ==
    {f \in DOMAIN fs :
        ~Contains(HistoryName, Dirname(f)) /\ Basename(f) = target_name}

\* Step 2 of _smart_resolve_path: the only candidate; ValueError, listing
\* them, when there are several; the path as given when there is none.
ResolveAmong(path_query, cands) ==
    IF Cardinality(cands) = 1
    THEN [kind |-> "ok", path |-> CHOOSE c \in cands : TRUE, candidates |-> cands]
    ELSE IF Cardinality(cands) > 1
    THEN [kind |-> "AmbiguousPath", path |-> path_query, candidates |-> cands]
    ELSE [kind |-> "ok", path |-> path_query, candidates |-> {}]

\* _smart_resolve_path after step 1 has validated the path as v.
SmartResolveWith(fs, ds, path_query, v) ==
    IF v.kind = "ok" /\ Exists(fs, ds, v.abs)
    THEN [kind |-> "ok", path |-> path_query, candidates |-> {}]
    ELSE ResolveAmong(path_query, Candidates(fs, Basename(path_query)))

\* _smart_resolve_path(path_query)
SmartResolvePath(fs, ds, path_query) ==
    SmartResolveWith(fs, ds, path_query, ValidatePath(path_query))

\* The resolved path r validated, unless resolving has failed.
ValidateResolved(r, v) ==
    IF r.kind # "ok"
    THEN [kind |-> r.kind, resolved |-> r.path, abs |-> <<>>,
          candidates |-> r.candidates]
    ELSE [kind |-> v.kind, resolved |-> r.path, abs |-> v.abs,
          candidates |-> r.candidates]

\* _validate_path of what _smart_resolve_path returned as r
ValidateOf(r) == ValidateResolved(r, ValidatePath(r.path))

\* resolved_path = _smart_resolve_path(path); abs_path =
\* _validate_path(resolved_path), as the tools begin.
ResolveAndValidate(fs, ds, path_query) ==
    ValidateOf(SmartResolvePath(fs, ds, path_query))

\* The seconds the model's clock runs through.
MaxClock == 1

\* datetime.now().strftime("%Y%m%d_%H%M%S"): a name of fixed width, so that
\* sorted() orders the names by time.  The model's clock stays below 100.
Timestamp(t) == <<Digit[(t \div 10) + 1], Digit[(t % 10) + 1]>>

\* _ensure_history_dir(file_path): the directory it makes and returns.
HistoryDirOf(file_path) ==
    NormPath(HistoryName \o Slash
             \o ReplaceChar(ReplaceChar(file_path, "/", "_"), "\\", "_"))

\* The snapshot file _create_snapshot writes at time t.
SnapPath(file_path, t) ==
    HistoryDirOf(file_path) \o Slash \o Timestamp(t) \o SnapSuffix

\* os.makedirs(d, exist_ok=True) raises when d or a directory above it is a
\* regular file.
MakedirsFails(fs, d) ==
    \E f \in DOMAIN fs : f = d \/ StartsWith(d, f \o Slash)

\* fs with the file at path p holding content c
WriteFile(fs, p, c) ==
    [q \in DOMAIN fs \cup {p} |-> IF q = p THEN c ELSE fs[q]]

(***************************************************************************)
(* update_knowledge_section: locating the section and splicing             *)
(***************************************************************************)

AppendId == <<"A", "P", "P", "E", "N", "D">>

\* A mutant of LockOk: the dual lock accepts every title.
LockAlways(expected_title, title) == TRUE

\* The dual lock holds when
\*   expected_title.lower().strip() in title.lower().strip()
LockOk(expected_title, title) ==
    Contains(Strip(Lower(expected_title)), Strip(Lower(title)))

\* The loop's variables before the first line (update_end = -1, ...).
LocateStart ==
    [counters |-> ZeroCounters, found |-> FALSE, level |-> 0,
     start |-> -1, end |-> -1, kind |-> "ok", title |-> <<>>]

\* A mutant of SectionEnds: only a heading of the target's own level ends
\* the section.
SectionEndsSameLevel(level, current_level) == level = current_level

\* A mutant of SectionEnds: only a shallower heading ends the section.
SectionEndsShallower(level, current_level) == level < current_level

\* if level <= current_level: the target block has ended
SectionEnds(level, current_level) == level <= current_level

RECURSIVE LocateFrom(_, _, _, _, _)
\* Lines 382-397 at the heading m of line i, c2 the counters updated: the
\* id is compared, and the lock tried at the heading that carries node_id.
LocateHeading(lines, i, st, node_id, expected_title, m, c2) ==
    IF IdOf(c2, m.level) = node_id
    THEN IF ~LockOk(expected_title, m.title)
         THEN [st EXCEPT !.kind = "LockMismatch", !.title = m.title]
         ELSE LocateFrom(lines, i + 1,
                  [st EXCEPT !.counters = c2, !.found = TRUE, !.level = m.level,
                             !.start = i - 1, !.title = m.title],
                  node_id, expected_title)
    ELSE LocateFrom(lines, i + 1, [st EXCEPT !.counters = c2],
                    node_id, expected_title)

\* A mutant of LocateAt: this copy of the loop does not reset the counters
\* of the deeper levels.
LocateAtNoReset(lines, i, st, node_id, expected_title, m) ==
    IF ~m.match THEN LocateFrom(lines, i + 1, st, node_id, expected_title)
    ELSE IF st.found /\ SectionEnds(m.level, st.level)
    THEN [st EXCEPT !.end = i - 1]
    ELSE LocateHeading(lines, i, st, node_id, expected_title, m,
                       BumpNoReset(st.counters, m.level))

\* The body of the loop at line i, m its match: the loop breaks at the
\* heading that ends the target.
LocateAt(lines, i, st, node_id, expected_title, m) ==
    IF ~m.match THEN LocateFrom(lines, i + 1, st, node_id, expected_title)
    ELSE IF st.found /\ SectionEnds(m.level, st.level)
    THEN [st EXCEPT !.end = i - 1]
    ELSE LocateHeading(lines, i, st, node_id, expected_title, m,
                       Bump(st.counters, m.level))

\* The loop over the lines from line i on (i counts from 1; update_start and
\* update_end keep the code's indices, which count from 0).
LocateFrom(lines, i, st, node_id, expected_title) ==
    IF i > Len(lines) THEN st
    ELSE LocateAt(lines, i, st, node_id, expected_title, HeadingMatch(lines[i]))

\* A mutant of LocateEnd: the test of target_found is missing, and the
\* slice indices stay -1 and len(lines).
LocateEndNoFoundTest(st, n) ==
    IF st.kind = "LockMismatch" THEN st
    ELSE IF ~st.found
    THEN [st EXCEPT !.start = IF n = 0 THEN 0 ELSE n - 1, !.end = n]
    ELSE IF st.end = -1 THEN [st EXCEPT !.end = n]
    ELSE st

\* Lines 399-403, after the loop has ended as st over n lines.
LocateEnd(st, n) ==
    IF st.kind = "LockMismatch" THEN st
    ELSE IF ~st.found THEN [st EXCEPT !.kind = "SectionNotFound"]
    ELSE IF st.end = -1 THEN [st EXCEPT !.end = n]
    ELSE st

\* Step 4 on the lines of the content.
LocateIn(lines, node_id, expected_title) ==
    LocateEnd(LocateFrom(lines, 1, LocateStart, node_id, expected_title),
              Len(lines))

\* Step 4 of update_knowledge_section: the target range of node_id in
\* content, or the failure.
Locate(content, node_id, expected_title) ==
    LocateIn(SplitLines(content), node_id, expected_title)

\* A mutant of KeepFinalNewline: the joined lines are written as they are.
DropFinalNewline(content, final_content) == final_content

\* The final "\n" of the content put back.
KeepFinalNewline(content, final_content) ==
    IF EndsWith(content, <<"\n">>) /\ ~EndsWith(final_content, <<"\n">>)
    THEN final_content \o <<"\n">>
    ELSE final_content

\* lines[:update_start] + new_lines + lines[update_end:]
SpliceLines(lines, update_start, update_end, new_lines) ==
    SubSeq(lines, 1, update_start) \o new_lines
        \o SubSeq(lines, update_end + 1, Len(lines))

\* Step 5: the new lines spliced in and the lines joined by "\n".
Splice(content, update_start, update_end, new_content) ==
    KeepFinalNewline(content,
        Join(<<"\n">>, SpliceLines(SplitLines(content), update_start, update_end,
                                   SplitLines(new_content))))

\* A mutant of Appended: one newline before the new content.
AppendedOneNewline(content, new_content) == content \o <<"\n">> \o new_content

\* What mode 'a' leaves in the file: f.write("\n\n" + new_content)
Appended(content, new_content) == content \o <<"\n", "\n">> \o new_content

(***************************************************************************)
(* The tools as actions                                                    *)
(***************************************************************************)

\* The invocations of update_knowledge_section that may be in progress.
Procs == {1, 2}

AllIdle == \A p \in Procs : pc[p] = "idle"

NoCall ==
    [op |-> "none", proc |-> 0, path |-> <<>>, node_id |-> <<>>,
     expected_title |-> <<>>, new_content |-> <<>>, resolved |-> <<>>,
     abs |-> <<>>, candidates |-> {}, pre |-> <<>>]

NoLoc ==
    [snap |-> <<>>, content |-> <<>>, update_start |-> -1, update_end |-> -1,
     title |-> <<>>, final_content |-> <<>>]

\* The fields of a returned call that the call does not set.
Blank ==
    [op |-> "none", proc |-> 0, kind |-> "none", path |-> <<>>,
     node_id |-> <<>>, expected_title |-> <<>>, new_content |-> <<>>,
     title_arg |-> <<>>, category |-> <<>>, tags |-> <<>>,
     description |-> <<>>, name |-> <<>>,
     resolved |-> <<>>, abs |-> <<>>, candidates |-> {}, title |-> <<>>,
     snap |-> <<>>, content |-> <<>>, update_start |-> -1, update_end |-> -1,
     final_content |-> <<>>, structure |-> <<>>, snap_used |-> <<>>,
     old_lines |-> <<>>, new_lines |-> <<>>, diff_empty |-> TRUE,
     metadata |-> <<>>, filter |-> <<>>, detail |-> FALSE, entries |-> {},
     made |-> {}, pre |-> <<>>, post |-> <<>>]

\* The record of a returned call: what it sets, over Blank.
Ret(r) == r @@ Blank

NoCache == [abs |-> <<>>, structure |-> <<>>, valid |-> FALSE]

\* The class attributes of ConfigLoader before its first construction:
\* _instance is None and _initialized is False. There is no instance yet,
\* so config_path and _config_cache stand empty until __init__ sets them.
NoLoader ==
    [_instance |-> FALSE, _initialized |-> FALSE, config_path |-> <<>>,
     _config_cache |-> [t |-> "map", v |-> <<>>]]

\* Lines 339-344 with the path resolved and validated as rv: a path error
\* and a missing file return; else the invocation goes on to the snapshot.
UpdBeginWith(p, rv, args) ==
    IF rv.kind # "ok"
    THEN /\ last' = Ret([kind |-> rv.kind, post |-> files] @@ args)
         /\ UNCHANGED <<pc, call>>
    ELSE IF ~Exists(files, dirs, rv.abs)
    THEN /\ last' = Ret([kind |-> "NotFound", post |-> files] @@ args)
         /\ UNCHANGED <<pc, call>>
    ELSE /\ pc' = [pc EXCEPT ![p] = "snapshot"]
         /\ call' = [call EXCEPT ![p] = args]
         /\ UNCHANGED last

\* The arguments of the invocation p with what its path resolved to.
UpdArgs(p, path, node_id, expected_title, new_content, rv) ==
    [op |-> "update", proc |-> p, path |-> path, node_id |-> node_id,
     expected_title |-> expected_title, new_content |-> new_content,
     resolved |-> rv.resolved, abs |-> rv.abs, candidates |-> rv.candidates,
     pre |-> files]

\* The path of the invocation p resolved as rv.
UpdBeginResolved(p, path, node_id, expected_title, new_content, rv) ==
    UpdBeginWith(p, rv, UpdArgs(p, path, node_id, expected_title, new_content, rv))

\* update_knowledge_section(path, node_id, expected_title, new_content) is
\* called as invocation p, lines 339-344.
UpdBegin(p, path, node_id, expected_title, new_content) ==
    /\ pc[p] = "idle"
    /\ UpdBeginResolved(p, path, node_id, expected_title, new_content,
                        ResolveAndValidate(files, dirs, path))
    /\ ncalls' = ncalls + 1
    /\ UNCHANGED <<files, dirs, clock, loc, cache, configs, loader>>

\* The invocation p returns r, the files being fs.
Return(p, r, fs) ==
    /\ last' = Ret(r @@ [post |-> fs] @@ loc[p] @@ call[p])
    /\ pc' = [pc EXCEPT ![p] = "idle"]
    /\ call' = [call EXCEPT ![p] = NoCall]
    /\ loc' = [loc EXCEPT ![p] = NoLoc]

\* A mutant of SnapshotStep: nothing is copied.
SnapshotStepSkipped(p, abs, hd, sp) ==
    /\ pc' = [pc EXCEPT ![p] = "read"]
    /\ loc' = [loc EXCEPT ![p].snap = sp]
    /\ UNCHANGED <<files, dirs, call, last>>

\* _create_snapshot for the file abs, hd its history directory and sp the
\* snapshot file: the directory is made and the file copied to sp, over a
\* snapshot of the same second.  copy2 raises on a directory.
SnapshotStep(p, abs, hd, sp) ==
    IF ~Exists(files, dirs, abs)
    THEN /\ pc' = [pc EXCEPT ![p] = "read"]
         /\ UNCHANGED <<files, dirs, call, loc, last>>
    ELSE IF MakedirsFails(files, hd)
    THEN /\ Return(p, [kind |-> "IOError"], files)
         /\ UNCHANGED <<files, dirs>>
    ELSE IF abs \notin DOMAIN files
    THEN /\ dirs' = dirs \cup {hd}
         /\ Return(p, [kind |-> "IOError"], files)
         /\ UNCHANGED files
    ELSE /\ files' = WriteFile(files, sp, files[abs])
         /\ dirs' = dirs \cup {hd}
         /\ loc' = [loc EXCEPT ![p].snap = sp]
         /\ pc' = [pc EXCEPT ![p] = "read"]
         /\ UNCHANGED <<call, last>>

\* Line 347: _create_snapshot(resolved_path, abs_path)
UpdSnapshot(p) ==
    /\ pc[p] = "snapshot"
    /\ SnapshotStep(p, call[p].abs, HistoryDirOf(call[p].resolved),
                    SnapPath(call[p].resolved, clock))
    /\ UNCHANGED <<clock, cache, configs, loader, ncalls>>

\* Lines 359-403 on the content read, r the target located in it: a failed
\* lock and a missing section return; else the new content is computed.
UpdLocated(p, content, r) ==
    IF r.kind # "ok"
    THEN Return(p, [kind |-> r.kind, title |-> r.title, content |-> content], files)
    ELSE /\ pc' = [pc EXCEPT ![p] = "write"]
         /\ loc' = [loc EXCEPT ![p] =
                [@ EXCEPT !.content = content,
                          !.update_start = r.start,
                          !.update_end = r.end,
                          !.title = r.title,
                          !.final_content =
                              Splice(content, r.start, r.end, call[p].new_content)]]
         /\ UNCHANGED <<call, last>>

\* Lines 350-403: the file is read; APPEND goes on to append, any other
\* node_id is located in what was read.
UpdRead(p) ==
    /\ pc[p] = "read"
    /\ IF call[p].abs \notin DOMAIN files
       THEN Return(p, [kind |-> "IOError"], files)
       ELSE IF call[p].node_id = AppendId
       THEN /\ pc' = [pc EXCEPT ![p] = "append"]
            /\ loc' = [loc EXCEPT ![p].content = files[call[p].abs]]
            /\ UNCHANGED <<call, last>>
       ELSE UpdLocated(p, files[call[p].abs],
                Locate(files[call[p].abs], call[p].node_id, call[p].expected_title))
    /\ UNCHANGED <<files, dirs, clock, cache, configs, loader, ncalls>>

\* The invocation p writes fs and returns.
WriteAndReturn(p, fs) ==
    /\ files' = fs
    /\ Return(p, [kind |-> "ok"], fs)

\* Lines 355-357: the new content is appended to the file as it is now.
UpdAppend(p) ==
    /\ pc[p] = "append"
    /\ WriteAndReturn(p,
          WriteFile(files, call[p].abs,
              Appended(IF call[p].abs \in DOMAIN files
                       THEN files[call[p].abs] ELSE <<>>,
                       call[p].new_content)))
    /\ UNCHANGED <<dirs, clock, cache, configs, loader, ncalls>>

\* A mutant of UpdWrite: the section is spliced into the file as it is when
\* it is written.
UpdWriteFresh(p) ==
    /\ pc[p] = "write"
    /\ WriteAndReturn(p,
          WriteFile(files, call[p].abs,
              Splice(files[call[p].abs], loc[p].update_start,
                     loc[p].update_end, call[p].new_content)))
    /\ UNCHANGED <<dirs, clock, cache, configs, loader, ncalls>>

\* Lines 414-417: the file is overwritten with the new content.
UpdWrite(p) ==
    /\ pc[p] = "write"
    /\ WriteAndReturn(p, WriteFile(files, call[p].abs, loc[p].final_content))
    /\ UNCHANGED <<dirs, clock, cache, configs, loader, ncalls>>

\* The steps of the invocation p after its call.
UpdSteps(p) ==
    \/ UpdSnapshot(p)
    \/ UpdRead(p)
    \/ UpdAppend(p)
    \/ UpdWrite(p)

\* A second of datetime.now() passes.
Tick ==
    /\ clock < MaxClock
    /\ clock' = clock + 1
    /\ UNCHANGED <<files, dirs, pc, call, loc, last, cache, configs, loader, ncalls>>

(***************************************************************************)
(* create_knowledge                                                        *)
(***************************************************************************)

\* name=None (an empty name is as good as none: "if name:")
NoName == <<>>

\* clean_name[:-3] if clean_name.endswith(".md")
WithoutMd(clean_name) ==
    IF EndsWith(clean_name, MdSuffix)
    THEN SubSeq(clean_name, 1, Len(clean_name) - 3)
    ELSE clean_name

\* Lines 288-295: the file name, from name or else from the title.
CleanName(title, name) ==
    IF name # NoName
    THEN WithoutMd(ReplaceChar(ReplaceChar(Strip(name), "/", "_"), "\\", "_"))
    ELSE ReplaceChar(ReplaceChar(Lower(title), " ", "_"), "/", "_")

\* target_path = f"{category}/{clean_name}.md"
TargetPath(title, category, name) ==
    category \o Slash \o CleanName(title, name) \o MdSuffix

\* The items of tags.split(",") stripped, the empty ones left out.
TagList(tags) ==
    SelectSeq([i \in 1..Len(Split(tags, ",")) |-> Strip(Split(tags, ",")[i])],
              LAMBDA t : t # <<>>)

\* datetime.now().strftime("%Y-%m-%d"): the model's clock stays within a day.
Today == <<"2", "0", "2", "6", "-", "0", "1", "-", "0", "1">>

KeyTitle == <<"t", "i", "t", "l", "e">>

KeyCategory == <<"c", "a", "t", "e", "g", "o", "r", "y">>

KeyTags == <<"t", "a", "g", "s">>

KeyDescription == <<"d", "e", "s", "c", "r", "i", "p", "t", "i", "o", "n">>

KeyLastUpdated == <<"l", "a", "s", "t", "_", "u", "p", "d", "a", "t", "e", "d">>

\* s is made of digits only.
IsNumeral(s) ==
    s # <<>> /\ \A i \in 1..Len(s) : \E d \in 1..10 : Digit[d] = s[i]

\* s has the shape of a date, dddd-dd-dd.
IsDateLike(s) ==
    /\ Len(s) = 10
    /\ \A i \in {5, 8} : s[i] = "-"
    /\ \A i \in (1..10) \ {5, 8} : \E d \in 1..10 : Digit[d] = s[i]

\* The strings yaml.dump puts between quotes, among those of the model
\* (letters, digits, blanks inside, "-", "_", "/"): the empty string, and
\* those a plain scalar would not read back as: a number, a date, the
\* document marker.
NeedsQuote(s) ==
    \/ s = <<>>
    \/ IsNumeral(s)
    \/ IsDateLike(s)
    \/ s = <<"-", "-", "-">>

\* A string as yaml.dump writes it.
YamlScalar(s) == IF NeedsQuote(s) THEN <<"'">> \o s \o <<"'">> ELSE s

RECURSIVE YamlItems(_)
\* A list in yaml's block style, an item a line.
YamlItems(items) ==
    IF items = <<>> THEN <<>>
    ELSE <<"-", " ">> \o YamlScalar(items[1]) \o <<"\n">> \o YamlItems(Tail(items))

\* yaml.dump of one key: a string is written plain or, when quoted, between
\* quotes; a list in block style ([] when empty).
YamlEntry(key, value, is_list, quoted) ==
    IF is_list
    THEN IF value = <<>> THEN key \o <<":", " ", "[", "]", "\n">>
         ELSE key \o <<":", "\n">> \o YamlItems(value)
    ELSE IF quoted THEN key \o <<":", " ", "'">> \o value \o <<"'", "\n">>
    ELSE key \o <<":", " ">> \o value \o <<"\n">>

\* yaml.dump(meta, sort_keys=False) of the meta of create_knowledge
YamlDump(title, category, tag_list, description, last_updated) ==
    YamlEntry(KeyTitle, title, FALSE, NeedsQuote(title))
        \o YamlEntry(KeyCategory, category, FALSE, NeedsQuote(category))
        \o YamlEntry(KeyTags, tag_list, TRUE, FALSE)
        \o YamlEntry(KeyDescription, description, FALSE, NeedsQuote(description))
        \o YamlEntry(KeyLastUpdated, last_updated, FALSE, NeedsQuote(last_updated))

\* _build_frontmatter(meta): f"---\n{yaml_str}\n---\n", yaml_str stripped
BuildFrontmatter(title, category, tag_list, description, last_updated) ==
    <<"-", "-", "-", "\n">>
        \o Strip(YamlDump(title, category, tag_list, description, last_updated))
        \o <<"\n", "-", "-", "-", "\n">>

\* Lines 314-315: the frontmatter and the title as the only heading.
NewDocument(title, category, tags, description) ==
    BuildFrontmatter(title, category, TagList(tags), description, Today)
        \o <<"\n", "#", " ">> \o title \o <<"\n", "\n">>

\* A mutant of CreateWith: the file is written whether it exists or not.
CreateOverwrites(args, v, content) ==
    IF v.kind # "ok"
    THEN last' = Ret([kind |-> v.kind, post |-> files] @@ args) /\ UNCHANGED files
    ELSE /\ files' = WriteFile(files, v.abs, content)
         /\ last' = Ret([kind |-> "ok", abs |-> v.abs,
                         post |-> WriteFile(files, v.abs, content)] @@ args)

\* Lines 300-322 with the target path validated as v: the call fails on a
\* path that exists; else the directory is made and the file written.
CreateWith(args, v, content) ==
    IF v.kind # "ok"
    THEN last' = Ret([kind |-> v.kind, post |-> files] @@ args) /\ UNCHANGED files
    ELSE IF Exists(files, dirs, v.abs)
    THEN /\ last' = Ret([kind |-> "AlreadyExists", abs |-> v.abs,
                         post |-> files] @@ args)
         /\ UNCHANGED files
    ELSE IF MakedirsFails(files, Dirname(v.abs))
    THEN /\ last' = Ret([kind |-> "IOError", abs |-> v.abs,
                         post |-> files] @@ args)
         /\ UNCHANGED files
    ELSE /\ files' = WriteFile(files, v.abs, content)
         /\ last' = Ret([kind |-> "ok", abs |-> v.abs,
                         post |-> WriteFile(files, v.abs, content)] @@ args)

\* A mutant of CreateTarget: the path is resolved as the reading tools
\* resolve theirs.
CreateTargetFuzzy(fs, ds, target_path) == ResolveAndValidate(fs, ds, target_path)

\* abs_path = _validate_path(target_path): the target is taken as it is.
CreateTarget(fs, ds, target_path) == ValidatePath(target_path)

\* create_knowledge(title, category, tags, description, name)
Create(title, category, tags, description, name) ==
    /\ CreateWith([op |-> "create", title_arg |-> title, category |-> category,
                   tags |-> tags, description |-> description, name |-> name,
                   path |-> TargetPath(title, category, name), pre |-> files],
                  CreateTarget(files, dirs, TargetPath(title, category, name)),
                  NewDocument(title, category, tags, description))
    /\ ncalls' = ncalls + 1
    /\ UNCHANGED <<dirs, clock, pc, call, loc, cache, configs, loader>>

(***************************************************************************)
(* _parse_frontmatter                                                      *)
(*                                                                         *)
(* A yaml value is a record: [t |-> "str", v |-> the characters], "int"    *)
(* and "date" likewise, [t |-> "list", v |-> the items] and                *)
(* [t |-> "null"].  What yaml.safe_load returns is [kind |-> "map", map    *)
(* |-> the function from keys to values], or [kind |-> "value", value |->  *)
(* a yaml value] for a document that is no mapping, or [kind |-> "error"]. *)
(* The model reads the yaml of unindented lines: "key: value", "key:",     *)
(* "- item", comments and plain text.                                      *)
(***************************************************************************)

Dashes == <<"-", "-", "-">>

StrValue(s) == [t |-> "str", v |-> s]

ListValue(items) == [t |-> "list", v |-> items]

NullValue == [t |-> "null", v |-> <<>>]

\* {}: the mapping without keys
EmptyMap == [kind |-> "map", map |-> <<>>]

\* The first place of sub in s, 0 when there is none.
FirstOcc(s, sub) ==
    IF Contains(sub, s)
    THEN SetMin({i \in 1..(Len(s) - Len(sub) + 1) :
                    SubSeq(s, i, i + Len(sub) - 1) = sub})
    ELSE 0

\* s.rstrip()
RStrip(s) ==
    SubSeq(s, 1, SetMax({0} \cup {i \in 1..Len(s) : s[i] \notin Whitespace}))

\* A scalar as yaml reads it: between quotes a string; plain, a number, a
\* date, the empty list or a string.
ScalarValue(s) ==
    IF Len(s) >= 2 /\ s[1] = "'" /\ s[Len(s)] = "'"
    THEN StrValue(SubSeq(s, 2, Len(s) - 1))
    ELSE IF IsNumeral(s) THEN [t |-> "int", v |-> s]
    ELSE IF IsDateLike(s) THEN [t |-> "date", v |-> s]
    ELSE IF s = <<"[", "]">> THEN ListValue(<<>>)
    ELSE StrValue(s)

\* The line l is an item of a block list.
IsItem(l) == StartsWith(l, <<"-", " ">>)

\* The line l is an entry of a block mapping.
IsEntry(l) ==
    /\ ~IsItem(l)
    /\ l[1] # "'"
    /\ Contains(<<":", " ">>, l) \/ EndsWith(l, <<":">>)

\* The key of the entry l, k the place of its first ": " (0: "key:").
EntryKeyAt(l, k) == IF k = 0 THEN SubSeq(l, 1, Len(l) - 1) ELSE SubSeq(l, 1, k - 1)

EntryKey(l) == EntryKeyAt(l, FirstOcc(l, <<":", " ">>))

\* The text after the key of the entry l, stripped.
EntryTextAt(l, k) == IF k = 0 THEN <<>> ELSE Strip(SubSeq(l, k + 2, Len(l)))

EntryText(l) == EntryTextAt(l, FirstOcc(l, <<":", " ">>))

\* The items that follow one another from line i on.
ItemsRun(lines, i) ==
    SetMin({n \in 0..(Len(lines) - i + 1) :
               i + n > Len(lines) \/ ~IsItem(lines[i + n])})

\* The values of the n items from line i on.
ItemValues(lines, i, n) ==
    [j \in 1..n |-> ScalarValue(Strip(SubSeq(lines[i + j - 1], 3, Len(lines[i + j - 1]))))]

\* The mapping acc with key at value.
PutKey(acc, key, value) ==
    [k \in DOMAIN acc \cup {key} |-> IF k = key THEN value ELSE acc[k]]

RECURSIVE YamlMapFrom(_, _, _)
\* The entry at line i whose text is empty, n items following it: its
\* value is the list of them, null when there is none.
YamlEntryItems(lines, i, acc, n) ==
    YamlMapFrom(lines, i + 1 + n,
        PutKey(acc, EntryKey(lines[i]),
               IF n = 0 THEN NullValue ELSE ListValue(ItemValues(lines, i + 1, n))))

\* The block mapping read from line i on, acc the entries read so far; a
\* line that is no entry where one must stand is an error.
YamlMapFrom(lines, i, acc) ==
    IF i > Len(lines) THEN [kind |-> "map", map |-> acc]
    ELSE IF ~IsEntry(lines[i]) THEN [kind |-> "error"]
    ELSE IF EntryText(lines[i]) = <<>>
    THEN YamlEntryItems(lines, i, acc, ItemsRun(lines, i + 1))
    ELSE YamlMapFrom(lines, i + 1,
             PutKey(acc, EntryKey(lines[i]), ScalarValue(EntryText(lines[i]))))

\* The document of the lines, none of them blank or a comment: nothing is
\* null, entries a mapping, items a list, one line of text a scalar.
YamlDocument(lines) ==
    IF lines = <<>> THEN [kind |-> "value", value |-> NullValue]
    ELSE IF IsEntry(lines[1]) THEN YamlMapFrom(lines, 1, <<>>)
    ELSE IF IsItem(lines[1])
    THEN IF ItemsRun(lines, 1) = Len(lines)
         THEN [kind |-> "value", value |-> ListValue(ItemValues(lines, 1, Len(lines)))]
         ELSE [kind |-> "error"]
    ELSE IF Len(lines) = 1
    THEN [kind |-> "value", value |-> ScalarValue(lines[1])]
    ELSE [kind |-> "error"]

\* yaml.safe_load(text): the blank lines and the comments do not count.
YamlLoad(text) ==
    YamlDocument(SelectSeq([i \in 1..Len(Split(text, "\n")) |->
                               RStrip(Split(text, "\n")[i])],
                           LAMBDA l : l # <<>> /\ l[1] # "#"))

\* A yaml value Python takes for false: None, '', 0, [].
Falsy(value) ==
    \/ value.t = "null"
    \/ value.t \in {"str", "list"} /\ value.v = <<>>
    \/ value.t = "int" /\ \A i \in 1..Len(value.v) : value.v[i] = "0"

\* meta = yaml.safe_load(yaml_content) or {}
LoadedOrEmpty(y) ==
    IF y.kind = "value" /\ Falsy(y.value) THEN EmptyMap ELSE y

\* Lines 71-76: the yaml of parts[1] loaded as y and parts[2] are returned;
\* when yaml raises, the empty metadata and the content.
ParsedParts(content, y, body) ==
    IF y.kind = "error" THEN [meta |-> EmptyMap, body |-> content]
    ELSE [meta |-> LoadedOrEmpty(y), body |-> body]

\* Lines 69-70: content.split("---", 2) of a content that starts with
\* "---", rest what follows these and j the place of the next "---" in it.
SplitParts(content, rest, j) ==
    IF j = 0 THEN [meta |-> EmptyMap, body |-> content]
    ELSE ParsedParts(content, YamlLoad(SubSeq(rest, 1, j - 1)),
                     SubSeq(rest, j + 3, Len(rest)))

\* The content after its first three characters.
AfterDashes(content) == SubSeq(content, 4, Len(content))

\* _parse_frontmatter(content): (meta, body)
ParseFrontmatter(content) ==
    IF StartsWith(content, Dashes)
    THEN SplitParts(content, AfterDashes(content),
                    FirstOcc(AfterDashes(content), Dashes))
    ELSE [meta |-> EmptyMap, body |-> content]

(***************************************************************************)
(* get_file_outline                                                        *)
(***************************************************************************)

\* json.dumps raises TypeError on a date, the one yaml value of the model
\* that json does not know.
HasDate(value) ==
    \/ value.t = "date"
    \/ value.t = "list" /\ \E i \in 1..Len(value.v) : value.v[i].t = "date"

\* json.dumps(result) raises for the metadata meta.
JsonFails(meta) ==
    IF meta.kind = "map" THEN \E k \in DOMAIN meta.map : HasDate(meta.map[k])
    ELSE HasDate(meta.value)

\* Lines 240-249 with the frontmatter parsed as meta: the metadata and the
\* outline structure are returned, unless json.dumps raises.
OutlineParsed(args, abs, content, structure, meta) ==
    IF JsonFails(meta)
    THEN last' = Ret([kind |-> "IOError", content |-> content] @@ args)
         /\ UNCHANGED <<cache, configs, loader>>
    ELSE /\ last' = Ret([kind |-> "ok", content |-> content, metadata |-> meta,
                         structure |-> structure] @@ args)
         /\ cache' = [abs |-> abs, structure |-> structure, valid |-> TRUE]
         /\ UNCHANGED <<configs, loader>>

\* get_file_outline returns the metadata and the outline structure of the
\* file read.
OutlineRead(args, abs, content, structure) ==
    OutlineParsed(args, abs, content, structure, ParseFrontmatter(content).meta)

\* get_file_outline with the path resolved and validated as rv.
GetOutlineWith(rv, args) ==
    IF rv.kind # "ok"
    THEN last' = Ret([kind |-> rv.kind] @@ args) /\ UNCHANGED <<cache, configs, loader>>
    ELSE IF ~Exists(files, dirs, rv.abs)
    THEN last' = Ret([kind |-> "NotFound"] @@ args) /\ UNCHANGED <<cache, configs, loader>>
    ELSE IF rv.abs \notin DOMAIN files
    THEN last' = Ret([kind |-> "IOError"] @@ args) /\ UNCHANGED <<cache, configs, loader>>
    ELSE OutlineRead(args, rv.abs, files[rv.abs], GetOutlineTree(files[rv.abs]))

\* The path of get_file_outline resolved as rv.
GetOutlineResolved(path, rv) ==
    GetOutlineWith(rv,
        [op |-> "get_outline", path |-> path, resolved |-> rv.resolved,
         abs |-> rv.abs, candidates |-> rv.candidates,
         pre |-> files, post |-> files])

\* get_file_outline(path)
GetOutline(path) ==
    /\ GetOutlineResolved(path, ResolveAndValidate(files, dirs, path))
    /\ ncalls' = ncalls + 1
    /\ UNCHANGED <<files, dirs, clock, pc, call, loc>>

RECURSIVE ReadLines(_)
\* f.readlines(): the lines with their "\n"
ReadLines(content) ==
    IF content = <<>> THEN <<>>
    ELSE IF \A i \in 1..Len(content) : content[i] # "\n" THEN <<content>>
    ELSE <<SubSeq(content, 1, SetMin({i \in 1..Len(content) : content[i] = "\n"}))>>
         \o ReadLines(SubSeq(content,
                SetMin({i \in 1..Len(content) : content[i] = "\n"}) + 1,
                Len(content)))

(***************************************************************************)
(* list_knowledge_catalog                                                  *)
(***************************************************************************)

\* f.readlines()[:50]
CatalogLines == 50

\* category=None (an empty category is as good as none: "if category and")
NoFilter == <<>>

Unknown == <<"u", "n", "k", "n", "o", "w", "n">>

NoDescription ==
    <<"N", "o", " ", "d", "e", "s", "c", "r", "i", "p", "t", "i", "o", "n", ".">>

\* Some directory on the way to the file f is hidden: os.walk does not
\* descend into the directories whose name starts with ".".
UnderHidden(f) ==
    \E i \in 1..(Len(Split(f, "/")) - 1) : StartsWith(Split(f, "/")[i], <<".">>)

\* The files the loops of lines 181-187 come to: the .md files of the
\* directories walked.
Walked(fs) ==
    {f \in DOMAIN fs : ~UnderHidden(f) /\ EndsWith(Basename(f), MdSuffix)}

\* "".join(f.readlines()[:50])
FirstLines(lines) ==
    Join(<<>>, SubSeq(lines, 1, IF Len(lines) < CatalogLines THEN Len(lines)
                                ELSE CatalogLines))

\* Lines 193-200: the metadata of the first lines of the file.
CatalogMeta(content) == ParseFrontmatter(FirstLines(ReadLines(content))).meta

\* meta.get(key, default) of metadata that are a mapping
MetaGet(meta, key, default) ==
    IF key \in DOMAIN meta.map THEN meta.map[key] ELSE default

\* file_cat = meta.get('category', 'unknown')
FileCat(meta) == MetaGet(meta, KeyCategory, StrValue(Unknown))

\* Lines 203-204 raise AttributeError: metadata that are no mapping have no
\* get, and a category that is no string has no lower.
EntryRaises(meta, category) ==
    \/ meta.kind # "map"
    \/ category # NoFilter /\ FileCat(meta).t # "str"

\* The file passes the filter of line 204.
PassesFilter(meta, category) ==
    category = NoFilter \/ Contains(Lower(category), Lower(FileCat(meta).v))

\* Lines 207-215: the entry of the file f.
CatalogItem(f, meta, detail) ==
    [path |-> f,
     title |-> MetaGet(meta, KeyTitle, StrValue(Basename(f))),
     category |-> FileCat(meta),
     description |-> IF detail
                     THEN MetaGet(meta, KeyDescription, StrValue(NoDescription))
                     ELSE NullValue,
     tags |-> IF detail THEN MetaGet(meta, KeyTags, ListValue(<<>>)) ELSE NullValue]

\* json.dumps(catalog) raises TypeError on an entry with a date.
ItemJsonFails(item) ==
    HasDate(item.title) \/ HasDate(item.category)
        \/ HasDate(item.description) \/ HasDate(item.tags)

\* The catalog of the entries: the text of json.dumps, or the exception it
\* raises, which nothing in the tool catches.
CatalogOf(base, entries) ==
    IF \E e \in entries : ItemJsonFails(e) THEN [kind |-> "Exception"] @@ base
    ELSE [kind |-> "ok", entries |-> entries] @@ base

\* Lines 181-219 over the files walked, metas their metadata: an exception
\* of lines 203-204 leaves the tool; else the entries of the files that
\* pass the filter are returned.
CatalogWith(base, walked, metas, category, detail) ==
    IF \E f \in walked : EntryRaises(metas[f], category)
    THEN [kind |-> "Exception"] @@ base
    ELSE CatalogOf(base,
             {CatalogItem(f, metas[f], detail) :
                 f \in {g \in walked : PassesFilter(metas[g], category)}})

\* What list_knowledge_catalog(category, detail) returns on the files fs.
CatalogResult(fs, category, detail) ==
    CatalogWith([op |-> "list_catalog", filter |-> category, detail |-> detail,
                 pre |-> fs, post |-> fs],
                Walked(fs), [f \in Walked(fs) |-> CatalogMeta(fs[f])],
                category, detail)

\* list_knowledge_catalog(category, detail)
ListCatalog(category, detail) ==
    /\ last' = Ret(CatalogResult(files, category, detail))
    /\ ncalls' = ncalls + 1
    /\ UNCHANGED <<files, dirs, clock, pc, call, loc, cache, configs, loader>>

(***************************************************************************)
(* view_doc_changes                                                        *)
(***************************************************************************)

\* The .snap files of the directory dir: os.listdir filtered by the suffix.
SnapsIn(fs, dir) ==
    {f \in DOMAIN fs : Dirname(f) = dir /\ EndsWith(Basename(f), SnapSuffix)}

\* The place of a character in the order of the strings: the digits, which
\* the names of the snapshots are made of, in their order.
CharRank(c) ==
    IF \E d \in 1..10 : Digit[d] = c
    THEN CHOOSE d \in 1..10 : Digit[d] = c
    ELSE 11

RECURSIVE StrLeq(_, _)
\* a <= b as Python orders strings
StrLeq(a, b) ==
    IF a = <<>> THEN TRUE
    ELSE IF b = <<>> THEN FALSE
    ELSE IF CharRank(Head(a)) # CharRank(Head(b))
    THEN CharRank(Head(a)) < CharRank(Head(b))
    ELSE StrLeq(Tail(a), Tail(b))

\* A mutant of LatestSnap: the first of the sorted snapshots.
OldestSnap(snaps) ==
    CHOOSE f \in snaps : \A g \in snaps : StrLeq(Basename(f), Basename(g))

\* snaps[-1] of the sorted names
LatestSnap(snaps) ==
    CHOOSE f \in snaps : \A g \in snaps : StrLeq(Basename(g), Basename(f))

\* difflib.unified_diff(old_lines, new_lines, ...) joined: the text is
\* empty exactly when the two lists of lines are equal; else it shows the
\* lines that differ, under the name of the snapshot.
DiffOf(base, snap, old_lines, new_lines) ==
    [kind |-> "ok", snap_used |-> snap, old_lines |-> old_lines,
     new_lines |-> new_lines, diff_empty |-> (old_lines = new_lines)] @@ base

\* Lines 435-452, snaps being the snapshots of the history directory: no
\* history without them; else the latest is read, then the file.
ViewSnaps(fs, base, abs, snaps) ==
    IF snaps = {} THEN [kind |-> "NoHistory"] @@ base
    ELSE IF abs \notin DOMAIN fs THEN [kind |-> "IOError"] @@ base
    ELSE DiffOf(base, LatestSnap(snaps), ReadLines(fs[LatestSnap(snaps)]),
                ReadLines(fs[abs]))

\* Lines 432-452, hd being the history directory of the resolved path.
ViewHistory(fs, base, abs, hd) ==
    IF MakedirsFails(fs, hd) THEN [kind |-> "IOError"] @@ base
    ELSE ViewSnaps(fs, [made |-> {hd}] @@ base, abs, SnapsIn(fs, hd))

\* view_doc_changes with the path resolved and validated as rv.
ViewWith(fs, base, rv) ==
    IF rv.kind # "ok" THEN [kind |-> rv.kind] @@ base
    ELSE ViewHistory(fs, base, rv.abs, HistoryDirOf(rv.resolved))

\* The path of view_doc_changes resolved as rv.
ViewResolved(fs, path, rv) ==
    ViewWith(fs,
        [op |-> "view_changes", path |-> path, resolved |-> rv.resolved,
         abs |-> rv.abs, candidates |-> rv.candidates, made |-> {},
         pre |-> fs, post |-> fs],
        rv)

\* What view_doc_changes(path) returns on the files fs, with the history
\* directory it makes.
ViewResult(fs, ds, path) ==
    ViewResolved(fs, path, ResolveAndValidate(fs, ds, path))

\* view_doc_changes returns r.
ViewReturns(r) ==
    /\ last' = Ret(r)
    /\ dirs' = dirs \cup r.made

\* view_doc_changes(path)
ViewChanges(path) ==
    /\ ViewReturns(ViewResult(files, dirs, path))
    /\ ncalls' = ncalls + 1
    /\ UNCHANGED <<files, clock, pc, call, loc, cache, configs, loader>>

(***************************************************************************)
(* Texts the specifications draw from                                      *)
(***************************************************************************)

\* The sequences over S of length at most n
SeqsUpTo(S, n) == UNION {[1..k -> S] : k \in 0..n}

\* The documents of at most n lines drawn from lines, with and without a
\* final newline.
DocsOf(lines, n) ==
    {Join(<<"\n">>, ls) \o tail : ls \in SeqsUpTo(lines, n), tail \in {<<>>, <<"\n">>}}

LineA == <<"#", " ", "A">>

LineB == <<"#", "#", " ", "B">>

LineC == <<"#", "#", " ", "C">>

LineD == <<"#", "#", "#", " ", "D">>

LineText == <<"t">>

\* The document the specifications of a single document work on.
DocPath == <<"a", "/", "x", ".", "m", "d">>

\* create_knowledge is called with the title "X", whose slug is "x".
CreateTitle == <<"X">>

CreateTags == <<"A", ",", " ", "B">>

CreateDescription == <<"t">>

\* The frontmatter create_knowledge writes for a document of category b.
FrontDoc ==
    BuildFrontmatter(CreateTitle, <<"b">>, TagList(CreateTags), CreateDescription, Today)

StartState(fs) ==
    /\ files = fs
    /\ dirs = {}
    /\ clock = 0
    /\ pc = [p \in Procs |-> "idle"]
    /\ call = [p \in Procs |-> NoCall]
    /\ loc = [p \in Procs |-> NoLoc]
    /\ last = Ret([pre |-> fs, post |-> fs])
    /\ cache = NoCache
    /\ configs = <<>>
    /\ loader = NoLoader
    /\ ncalls = 0

(***************************************************************************)
(* SpecOutline: get_file_outline on every document of a few lines          *)
(***************************************************************************)

\* The lines of a document of SpecOutline, at most.
MaxLines == 4

OutlineLines == {LineA, LineB, LineC, LineD, LineText}

\* The documents of SpecOutline: every document of a few lines, and the
\* documents of fewer lines after a frontmatter.
OutlineDocs ==
    DocsOf(OutlineLines, MaxLines)
        \cup {FrontDoc \o d : d \in DocsOf(OutlineLines, MaxLines - 2)}

InitOutline == \E d \in OutlineDocs : StartState(DocPath :> d)

\* The tool calls of a behaviour of SpecOutline, at most.
OutlineCalls == 1

NextOutline == ncalls < OutlineCalls /\ GetOutline(DocPath)

SpecOutline == InitOutline /\ [][NextOutline]_vars

\* The counter of level l at the k-th heading of an outline, said without
\* counters: the headings of level l up to the k-th with no heading of a
\* lower level after them.
CounterAt(structure, k, l) ==
    Cardinality({j \in 1..k :
        /\ structure[j].level = l
        /\ \A m \in (j + 1)..k : structure[m].level >= l})

ExpectedId(structure, k) ==
    Join(<<".">>, [l \in 1..structure[k].level |-> Str(CounterAt(structure, k, l))])

ExampleHeadings ==
    <<[level |-> 1, title |-> <<"A">>], [level |-> 2, title |-> <<"B">>],
      [level |-> 2, title |-> <<"C">>], [level |-> 3, title |-> <<"D">>]>>

ExampleIds ==
    <<<<"1">>, <<"1", ".", "1">>, <<"1", ".", "2">>, <<"1", ".", "2", ".", "1">>>>

HeadingsOf(structure) ==
    [k \in 1..Len(structure) |->
        [level |-> structure[k].level, title |-> structure[k].title]]

IdsOf(structure) == [k \in 1..Len(structure) |-> structure[k].id]

\* C10: every heading of an outline has the id made of the counters of the
\* levels 1 to its own, where each heading increments the counter of its
\* level and resets the deeper ones; the headings # A, ## B, ## C, ### D get
\* the ids 1, 1.1, 1.2 and 1.2.1.
C10_OutlineIds ==
    (last.op = "get_outline" /\ last.kind = "ok") =>
        /\ \A k \in 1..Len(last.structure) :
              last.structure[k].id = ExpectedId(last.structure, k)
        /\ HeadingsOf(last.structure) = ExampleHeadings =>
              IdsOf(last.structure) = ExampleIds

\* C10's case: the outline of a document with the four headings was read.
C10_Witness ==
    /\ last.op = "get_outline"
    /\ last.kind = "ok"
    /\ HeadingsOf(last.structure) = ExampleHeadings
    /\ IdsOf(last.structure) = ExampleIds

\* The components of an id, between its dots.
Components(id) == Split(id, ".")

\* s is the decimal numeral of a positive integer.
IsPositiveNumeral(s) ==
    /\ s # <<>>
    /\ \A i \in 1..Len(s) : \E d \in 1..10 : Digit[d] = s[i]
    /\ s[1] # "0"

\* C11: the id of every node of an outline has one component for each level
\* from 1 to the level of the node, and every component is a positive
\* integer.
C11_IdsPositive ==
    (last.op = "get_outline" /\ last.kind = "ok") =>
        \A k \in 1..Len(last.structure) :
            /\ Len(Components(last.structure[k].id)) = last.structure[k].level
            /\ \A c \in 1..last.structure[k].level :
                  IsPositiveNumeral(Components(last.structure[k].id)[c])

\* The body of the document get_file_outline read: its content after the
\* frontmatter.
BodyRead == ParseFrontmatter(last.content).body

\* C12 as stated: line_start is the index, from 0, of the line of the
\* heading among the lines of the body.
C12_LineStartInBody ==
    (last.op = "get_outline" /\ last.kind = "ok") =>
        /\ Len(last.structure) = Len(GetOutlineTree(BodyRead))
        /\ \A k \in 1..Len(last.structure) :
              /\ last.structure[k].line_start \in 0..(Len(SplitLines(BodyRead)) - 1)
              /\ HeadingMatch(SplitLines(BodyRead)[last.structure[k].line_start + 1]).match
              /\ HeadingMatch(SplitLines(BodyRead)[last.structure[k].line_start + 1]).title
                    = last.structure[k].title

\* The lines of the whole content, counted from 1, that hold a heading.
HeadingLines(content) ==
    {i \in 1..Len(SplitLines(content)) : HeadingMatch(SplitLines(content)[i]).match}

\* C12, amended: line_start is the number, from 1, of the line of the
\* heading among the lines of the whole content, the frontmatter included;
\* the nodes stand in the order of their lines, one for every heading line.
C12_LineStartInContent ==
    (last.op = "get_outline" /\ last.kind = "ok") =>
        /\ {last.structure[k].line_start : k \in 1..Len(last.structure)}
              = HeadingLines(last.content)
        /\ \A k \in 1..Len(last.structure) :
              /\ last.structure[k].line_start \in 1..Len(SplitLines(last.content))
              /\ HeadingMatch(SplitLines(last.content)[last.structure[k].line_start]).title
                    = last.structure[k].title
              /\ HeadingMatch(SplitLines(last.content)[last.structure[k].line_start]).level
                    = last.structure[k].level
              /\ \A j \in 1..(k - 1) :
                    last.structure[j].line_start < last.structure[k].line_start

\* C12's case: the outline of a document with a frontmatter and headings
\* after it was read.
C12_Witness ==
    /\ last.op = "get_outline"
    /\ last.kind = "ok"
    /\ BodyRead # last.content
    /\ Len(last.structure) >= 2
    /\ last.structure[1].line_start > Len(SplitLines(FrontDoc))

(***************************************************************************)
(* SpecEdit: one update_knowledge_section on every document of a few lines *)
(***************************************************************************)

\* The lines of a document of SpecEdit, at most.
MaxEditLines == 3

\* The tool calls of a behaviour of SpecEdit, at most.
EditCalls == 1

LineAB == <<"#", "#", " ", "A", "B">>

LineLowB == <<"#", "#", "#", " ", "b">>

EditLines == {LineA, LineAB, LineLowB, LineText}

EditNodeIds == {<<"1">>, <<"1", ".", "1">>, <<"0", ".", "1">>, AppendId}

\* "a" is in "A" and "AB" but for the case, " B" in "AB" and "b" but for
\* the blank and the case; "a" is not in "b" nor " B" in "A".
EditTitles == {<<"a">>, <<" ", "B">>}

EditNewContents == {<<>>, LineAB \o <<"\n">> \o LineText}

InitEdit == \E d \in DocsOf(EditLines, MaxEditLines) : StartState(DocPath :> d)

NextEdit ==
    \/ /\ ncalls < EditCalls
       /\ \E node_id \in EditNodeIds, expected_title \in EditTitles,
             new_content \in EditNewContents :
             UpdBegin(1, DocPath, node_id, expected_title, new_content)
    \/ UpdSteps(1)

SpecEdit == InitEdit /\ [][NextEdit]_vars

\* The call that returned last is an update_knowledge_section that got as
\* far as the document: its path led to a regular file.
UpdatedDoc ==
    /\ last.op = "update"
    /\ last.kind \in {"ok", "LockMismatch", "SectionNotFound"}
    /\ last.abs \in DOMAIN last.pre

PreContent == last.pre[last.abs]

PostContent == last.post[last.abs]

\* The headings of the document before the call that carry its node_id, by
\* their place in the outline.
Addressed ==
    LET o == GetOutlineTree(PreContent)
    IN  {k \in 1..Len(o) : o[k].id = last.node_id}

\* e, trimmed, occurs in t when the case of the letters is ignored.
SubstringIgnoringCase(e, t) ==
    LET es == Strip(e)
    IN  \E i \in 0..(Len(t) - Len(es)) :
            \A k \in 1..Len(es) : LowerChar(es[k]) = LowerChar(t[i + k])

\* C1: update_section with a node_id that addresses a heading and an
\* expected_title that is not a case-insensitive, trimmed substring of that
\* heading's title fails with LockMismatch, reports the actual title and
\* leaves the document as it was.
C1_LockMismatch ==
    (/\ last.op = "update"
     /\ last.abs \in DOMAIN last.pre
     /\ last.node_id # AppendId
     /\ last.kind # "IOError") =>
        \A k \in Addressed :
            LET node == GetOutlineTree(PreContent)[k]
            IN  ~SubstringIgnoringCase(last.expected_title, node.title) =>
                    /\ last.kind = "LockMismatch"
                    /\ last.title = node.title
                    /\ PostContent = PreContent

\* C1's case: an update failed at the lock of an addressed heading.
C1_Witness ==
    /\ UpdatedDoc
    /\ last.kind = "LockMismatch"
    /\ Addressed # {}
    /\ PostContent = PreContent

\* C6: update_section with node_id APPEND on an existing document succeeds
\* whatever the expected_title, and the content is then the prior content
\* followed by two newlines and new_content.
C6_AppendKeepsPrior ==
    (/\ last.op = "update"
     /\ last.abs \in DOMAIN last.pre
     /\ last.node_id = AppendId
     /\ last.kind # "IOError") =>
        /\ last.kind = "ok"
        /\ PostContent = PreContent \o <<"\n", "\n">> \o last.new_content

\* C6's case: an APPEND whose expected_title occurs in no title of the
\* document returned, on a document that is not empty.
C6_Witness ==
    /\ UpdatedDoc
    /\ last.node_id = AppendId
    /\ last.kind = "ok"
    /\ PreContent # <<>>
    /\ last.new_content # <<>>
    /\ \A k \in 1..Len(GetOutlineTree(PreContent)) :
          ~SubstringIgnoringCase(last.expected_title, GetOutlineTree(PreContent)[k].title)

\* The range the documentation gives the k-th heading of an outline, in the
\* code's line indices (from 0): from its line to the line of the next
\* heading of its level or a lower one, or to the end.
RangeOf(content, k) ==
    LET o == GetOutlineTree(content)
        after == {j \in (k + 1)..Len(o) : o[j].level <= o[k].level}
    IN  [start |-> o[k].line_start - 1,
         end |-> IF after = {} THEN Len(SplitLines(content))
                 ELSE o[SetMin(after)].line_start - 1]

\* C8: the range a successful update_section replaces starts at the line of
\* the first heading whose id is node_id and ends before the next heading
\* of that level or a lower one, or at the end of the document; a deeper
\* heading does not end it.
C8_TargetRange ==
    (UpdatedDoc /\ last.kind = "ok" /\ last.node_id # AppendId) =>
        /\ Addressed # {}
        /\ LET r == RangeOf(PreContent, SetMin(Addressed))
           IN  /\ last.update_start = r.start
               /\ last.update_end = r.end

\* C8's case: a section with a deeper heading inside it was replaced, and a
\* later heading ended it.
C8_Witness ==
    /\ UpdatedDoc
    /\ last.kind = "ok"
    /\ last.node_id # AppendId
    /\ last.update_end < Len(SplitLines(PreContent))
    /\ \E i \in (last.update_start + 2)..last.update_end :
          HeadingMatch(SplitLines(PreContent)[i]).match

MaxCalls == 3

TitleA == <<"A">>

TitleAB == <<"A", "B">>

HeadingA == <<"#", " ", "A">>

HeadingAB == <<"#", " ", "A", "B">>

\* The root holds one document at first: a/x.md, a heading and a line.
StartDoc == HeadingA \o <<"\n">> \o LineText \o <<"\n">>

\* "../x.md" names no file of the root; its base name is that of a/x.md.
OutsidePath == <<".", ".", "/", "x", ".", "m", "d">>

\* "/a/x.md": a/x.md with a leading separator, which _validate_path strips.
SlashPath == Slash \o DocPath

Paths == {DocPath, OutsidePath}

\* The paths view_doc_changes is asked about.
ViewPaths == Paths \cup {SlashPath}

NodeIds == {<<"1">>, AppendId}

Titles == {TitleA, TitleAB}

NewContents == {HeadingAB \o <<"\n">> \o LineText, HeadingA \o <<"\n">> \o LineText}

Categories == {<<"a">>, <<"b">>}

Names == {NoName, <<"x", ".", "m", "d">>}

Init == StartState(DocPath :> StartDoc)

\* A tool is called when no call is in progress and calls are left.
MayCall == ncalls < MaxCalls /\ AllIdle

Next ==
    \/ /\ MayCall
       /\ \E path \in Paths : GetOutline(path)
    \/ /\ MayCall
       /\ \E path \in Paths, node_id \in NodeIds, expected_title \in Titles,
             new_content \in NewContents :
             UpdBegin(1, path, node_id, expected_title, new_content)
    \/ /\ MayCall
       /\ \E category \in Categories, name \in Names :
             Create(CreateTitle, category, CreateTags, CreateDescription, name)
    \/ /\ MayCall
       /\ \E path \in ViewPaths : ViewChanges(path)
    \/ UpdSteps(1)
    \/ Tick

Spec == Init /\ [][Next]_vars

\* The node of the outline the caller holds that its update names: the id
\* is the node_id of the call and the title its expected_title.
CachedNodes ==
    {k \in 1..Len(cache.structure) :
        /\ cache.structure[k].id = last.node_id
        /\ cache.structure[k].title = last.expected_title}

\* The title of the heading node_id addresses in the document as the update
\* found it.
AddressedTitle == GetOutlineTree(PreContent)[SetMin(Addressed)].title

\* C2: an update_section whose node_id and expected_title come from the
\* outline the caller got, on a document where node_id has come to address
\* a heading with another title since, fails with LockMismatch and leaves
\* the document as it was.
C2_StaleOutlineRejected ==
    (/\ last.op = "update"
     /\ last.abs \in DOMAIN last.pre
     /\ last.kind # "IOError"
     /\ cache.valid
     /\ cache.abs = last.abs
     /\ CachedNodes # {}
     /\ Addressed # {}
     /\ AddressedTitle # last.expected_title) =>
        /\ last.kind = "LockMismatch"
        /\ PostContent = PreContent

\* C3: while an update_section stands between its snapshot and its return,
\* the snapshot file holds the content the document had when the call began
\* and, until the write, so does the document; the document is not written
\* before the snapshot; and after a successful call the snapshot holds the
\* content from before the call.
C3_SnapshotBeforeWrite ==
    /\ \A p \in Procs :
          (pc[p] # "idle" /\ call[p].abs \in DOMAIN call[p].pre) =>
              /\ call[p].abs \in DOMAIN files
              /\ files[call[p].abs] = call[p].pre[call[p].abs]
              /\ pc[p] \in {"read", "append", "write"} =>
                    /\ loc[p].snap \in DOMAIN files
                    /\ files[loc[p].snap] = call[p].pre[call[p].abs]
    /\ (last.op = "update" /\ last.kind = "ok") =>
          /\ last.snap \in DOMAIN last.post
          /\ last.post[last.snap] = last.pre[last.abs]

\* C3's case: a call that changes the document has taken its snapshot and
\* stands before its write.
C3_Witness ==
    /\ pc[1] \in {"append", "write"}
    /\ loc[1].snap \in DOMAIN files
    /\ files[loc[1].snap] = files[call[1].abs]
    /\ (pc[1] = "write" => loc[1].final_content # files[call[1].abs])

\* The errors of the security boundary, and the error of a path that names
\* several files.
PathErrors == {"PathTraversal", "OutOfBounds", "AmbiguousPath"}

\* C4: get_outline, update_section and view_changes called with a path
\* that contains ".." are rejected with a path error, and the call leaves
\* every file as it was.
C4_DotDotRejected ==
    (/\ last.op \in {"get_outline", "update", "view_changes"}
     /\ Contains(DotDot, last.path)) =>
        /\ last.kind \in PathErrors
        /\ last.post = last.pre

\* C5: create on a target path that exists fails with AlreadyExists and
\* leaves every file as it was.
C5_CreateNeverOverwrites ==
    (/\ last.op = "create"
     /\ NormPath(CleanPath(last.path)) \in DOMAIN last.pre) =>
        /\ last.kind = "AlreadyExists"
        /\ last.post = last.pre

\* C5's case: create was called again with the arguments of the call that
\* made the file.
C5_Witness ==
    /\ last.op = "create"
    /\ last.kind = "AlreadyExists"
    /\ last.abs \in DOMAIN last.post
    /\ last.post[last.abs] =
          NewDocument(last.title_arg, last.category, last.tags, last.description)

\* What view_changes shows when it is called, with the path of the update
\* that returned last, as the next call.
ViewAfterUpdate == ViewResult(files, dirs, last.path)

\* The lines of readlines put together again.
Concat(lines) == Join(<<>>, lines)

IsSnapshot(f) ==
    StartsWith(f, HistoryName \o Slash) /\ EndsWith(f, SnapSuffix)

\* C13: no step removes a snapshot of the history store or changes its
\* content.
C13_SnapshotsKept ==
    [][\A f \in DOMAIN files :
          IsSnapshot(f) => f \in DOMAIN files' /\ files'[f] = files[f]]_vars

\* C14: after a successful update_section the document has a snapshot, so
\* view_changes, by whatever path names the document, does not fail with
\* NoHistory: it diffs the content against the snapshot the update took.
C14_NoHistoryOnlyWithoutSnapshots ==
    (AllIdle /\ last.op = "update" /\ last.kind = "ok") =>
        \A path \in ViewPaths :
            (/\ ResolveAndValidate(files, dirs, path).kind = "ok"
             /\ ResolveAndValidate(files, dirs, path).abs = last.abs) =>
                /\ ViewResult(files, dirs, path).kind = "ok"
                /\ ViewResult(files, dirs, path).snap_used = last.snap

(***************************************************************************)
(* The knowledge root as a tree: documents of several directories, with    *)
(* and without metadata, read, listed and created.                         *)
(***************************************************************************)

TreeCalls == 2

\* A document that is not there.
Absent == <<"absent">>

\* A document whose metadata are a list.
ListDoc ==
    Dashes \o <<"\n", "-", " ", "A", "\n">> \o Dashes \o <<"\n">>

\* A document whose category is a number.
NumberDoc ==
    Dashes \o <<"\n">> \o KeyCategory \o <<":", " ", "1", "\n">> \o Dashes
        \o <<"\n">>

OtherPath == <<"b", "/", "x", ".", "m", "d">>

HiddenPath == <<".", "c", "/", "x", ".", "m", "d">>

\* A category whose name ends as the history store is named.
DottedCategory == <<"b">> \o HistoryName

XName == <<"x", ".", "m", "d">>

YName == <<"y", ".", "m", "d">>

\* The files of the tree t, which maps the documents that are not there to
\* Absent.
TreeOf(t) == [f \in {g \in DOMAIN t : t[g] # Absent} |-> t[f]]

InitTree ==
    \E a \in {Absent, StartDoc, ListDoc, NumberDoc,
              NewDocument(CreateTitle, <<"a">>, CreateTags, CreateDescription)},
       b \in {Absent, StartDoc,
              NewDocument(CreateTitle, <<"b">>, CreateTags, CreateDescription)},
       c \in {Absent, StartDoc},
       h \in {Absent, StartDoc} :
        StartState(TreeOf(DocPath :> a @@ OtherPath :> b @@ HiddenPath :> c
                          @@ SnapPath(DocPath, 0) :> h))

TreeQueries == {XName, YName, DocPath, Basename(SnapPath(DocPath, 0))}

TreeFilters == {NoFilter, <<"A">>, <<"b">>}

TreeCategories == {<<"b">>, DottedCategory}

NextTree ==
    \/ /\ ncalls < TreeCalls
       /\ \E path \in TreeQueries : GetOutline(path)
    \/ /\ ncalls < TreeCalls
       /\ \E category \in TreeFilters, detail \in BOOLEAN :
             ListCatalog(category, detail)
    \/ /\ ncalls < TreeCalls
       /\ \E category \in TreeCategories :
             Create(CreateTitle, category, CreateTags, CreateDescription, NoName)

SpecTree == InitTree /\ [][NextTree]_vars

\* The file f is in the history store.
InHistoryStore(f) == StartsWith(f, HistoryName \o Slash)

\* The files of fs outside the history store named as the path is.
SameBaseName(fs, path) ==
    {f \in DOMAIN fs : ~InHistoryStore(f) /\ Basename(f) = Basename(path)}

\* The path as given names something that exists.
ExactExists(fs, path) ==
    ValidatePath(path).kind = "ok" /\ Exists(fs, dirs, ValidatePath(path).abs)

\* C15: when the exact path does not exist, the files of the whole tree
\* outside the history store that have the same base name decide: none, and
\* the path is returned unchanged; one, and it is returned; several, and the
\* resolution fails with AmbiguousPath and lists every one of them.
C15_FuzzyResolution ==
    last.op = "get_outline" /\ ~ExactExists(last.pre, last.path) =>
        /\ SameBaseName(last.pre, last.path) = {} =>
              last.kind # "AmbiguousPath" /\ last.resolved = last.path
        /\ Cardinality(SameBaseName(last.pre, last.path)) = 1 =>
              /\ last.kind # "AmbiguousPath"
              /\ last.resolved \in SameBaseName(last.pre, last.path)
        /\ Cardinality(SameBaseName(last.pre, last.path)) > 1 =>
              /\ last.kind = "AmbiguousPath"
              /\ last.candidates = SameBaseName(last.pre, last.path)

\* create_knowledge was called for a target that is valid and not there,
\* in a category whose directory can be made.
CreatedAfresh ==
    /\ last.op = "create"
    /\ ValidatePath(last.path).kind = "ok"
    /\ ~Exists(last.pre, dirs, ValidatePath(last.path).abs)
    /\ ~MakedirsFails(last.pre, Dirname(ValidatePath(last.path).abs))

\* C16: create_knowledge resolves nothing: it succeeds at exactly
\* {category}/{slug}.md and leaves every other document as it was, files of
\* the same base name in other directories or not.
C16_CreateExact ==
    CreatedAfresh =>
        /\ last.kind = "ok"
        /\ last.abs = NormPath(TargetPath(last.title_arg, last.category, last.name))
        /\ DOMAIN last.post = DOMAIN last.pre \cup {last.abs}
        /\ \A f \in DOMAIN last.pre : last.post[f] = last.pre[f]

\* A document was created while other directories held files of its name.
C16_Witness ==
    /\ CreatedAfresh
    /\ last.kind = "ok"
    /\ \E f \in DOMAIN last.pre :
          /\ Basename(f) = Basename(last.path)
          /\ ~InHistoryStore(f)
          /\ Dirname(f) # Dirname(last.abs)

\* C18: every operation returns a text for every input and every state of
\* the knowledge root, documents whose frontmatter is malformed or is no
\* mapping of strings included: no exception leaves a tool.
C18_NoExceptionPropagates == last.kind # "Exception"

\* The category of a document: the text its metadata give, "unknown" when
\* they give none.
CategoryOf(meta) ==
    IF meta.kind = "map" /\ KeyCategory \in DOMAIN meta.map
          /\ meta.map[KeyCategory].t = "str"
    THEN meta.map[KeyCategory].v
    ELSE Unknown

\* The .md files of fs outside the history store whose category contains
\* the filter, letter case ignored.
Listable(fs, filter) ==
    {f \in DOMAIN fs :
        /\ EndsWith(f, MdSuffix)
        /\ ~InHistoryStore(f)
        /\ \/ filter = NoFilter
           \/ Contains(Lower(filter),
                       Lower(CategoryOf(ParseFrontmatter(fs[f]).meta)))}

\* C19: list_knowledge_catalog returns exactly one entry for each .md file
\* outside the history store whose category contains the filter, letter
\* case ignored, and for each such file when there is no filter; a file
\* without parseable metadata has its file name as title and "unknown" as
\* category.
C19_CatalogEntries ==
    last.op = "list_catalog" =>
        /\ last.kind = "ok"
        /\ {e.path : e \in last.entries} = Listable(last.pre, last.filter)
        /\ Cardinality(last.entries) = Cardinality(Listable(last.pre, last.filter))
        /\ \A e \in last.entries :
              ParseFrontmatter(last.pre[e.path]).meta = EmptyMap =>
                  /\ e.title = StrValue(Basename(e.path))
                  /\ e.category = StrValue(Unknown)

(***************************************************************************)
(* Two invocations of update_knowledge_section on one document, their      *)
(* steps interleaved: nothing in the tool locks the file between the read  *)
(* of line 350 and the write of line 415.                                  *)
(***************************************************************************)

HeadingB == <<"#", " ", "B">>

\* The document the two invocations work on: a section A and a section B.
ConcDoc ==
    HeadingA \o <<"\n">> \o LineText \o <<"\n">> \o HeadingB \o <<"\n">>
        \o LineText \o <<"\n">>

\* The section the invocation p addresses, and the letter that marks its
\* new content.
ConcNode(p) == IF p = 1 THEN <<"1">> ELSE <<"2">>

ConcTitle(p) == IF p = 1 THEN <<"A">> ELSE <<"B">>

ConcMark(p) == IF p = 1 THEN <<"u">> ELSE <<"v">>

ConcContent(p) ==
    (IF p = 1 THEN HeadingA ELSE HeadingB) \o <<"\n">> \o ConcMark(p)

InitConc == StartState(DocPath :> ConcDoc)

\* Invocation 1 is the one called first; from its call on the steps of the
\* two interleave freely.
NextConc ==
    \/ \E p \in Procs :
          /\ ncalls = p - 1
          /\ \E node_id \in {ConcNode(p), AppendId} :
                UpdBegin(p, DocPath, node_id, ConcTitle(p), ConcContent(p))
    \/ \E p \in Procs : UpdSteps(p)

SpecConc == InitConc /\ [][NextConc]_vars

\* C17: concurrent invocations on one document are not serialized.  Each
\* reads the document, passes the lock and reports success, and a
\* replacement writes the document it read with its section replaced,
\* whatever the file holds by then: in some interleaving the final document
\* lacks the new content of the other invocation.
C17_WritesWhatItRead ==
    last.op = "update" =>
        /\ last.kind = "ok"
        /\ last.node_id # AppendId =>
              /\ last.title = last.expected_title
              /\ last.post[last.abs] =
                    Splice(last.content, last.update_start, last.update_end,
                           last.new_content)

\* Both invocations have returned, the last of them a replacement that read
\* the document as it was at first, and the new content of the other is not
\* in the document.
C17_Witness ==
    /\ AllIdle
    /\ ncalls = 2
    /\ last.op = "update"
    /\ last.kind = "ok"
    /\ last.node_id # AppendId
    /\ last.content = ConcDoc
    /\ \E q \in Procs \ {last.proc} : ~Contains(ConcMark(q), files[DocPath])

(***************************************************************************)
(* The frontmatter codec on its own: the metadata create_knowledge builds  *)
(* are encoded, a body is put after them, and the whole is decoded.        *)
(***************************************************************************)

CodecLines == 1

TitleDashes == <<"A", "-", "-", "-", "B">>

CodecTitles == {CreateTitle, TitleDashes, <<"1">>}

CodecCategories == {<<"b">>, <<>>}

CodecTags == {<<>>, <<"A">>, CreateTags}

CodecDescriptions == {CreateDescription, <<>>}

CodecBodies == DocsOf({HeadingA, LineText}, CodecLines)

\* The metadata and the body are what a caller chose.
InitCodec ==
    \E title \in CodecTitles, category \in CodecCategories,
       tags \in CodecTags, description \in CodecDescriptions,
       body \in CodecBodies :
        /\ files = <<>>
        /\ dirs = {}
        /\ clock = 0
        /\ pc = [p \in Procs |-> "idle"]
        /\ call = [p \in Procs |-> NoCall]
        /\ loc = [p \in Procs |-> NoLoc]
        /\ last = Ret([op |-> "codec_input", title_arg |-> title,
                       category |-> category, tags |-> tags,
                       description |-> description, new_content |-> body])
        /\ cache = NoCache
        /\ configs = <<>>
        /\ loader = NoLoader
        /\ ncalls = 0

\* encode(m) followed by the body
Encoded(title, category, tags, description, body) ==
    BuildFrontmatter(title, category, TagList(tags), description, Today) \o body

\* The round trip of the metadata m of lines 306-312 and a body: what
\* _parse_frontmatter returns of _build_frontmatter(m) + body.
RoundTripOf(args, parsed) ==
    /\ last' = Ret([op |-> "round_trip", kind |-> "ok",
                    metadata |-> parsed.meta, content |-> parsed.body] @@ args)
    /\ ncalls' = ncalls + 1
    /\ UNCHANGED <<files, dirs, clock, pc, call, loc, cache, configs, loader>>

RoundTrip(title, category, tags, description, body) ==
    RoundTripOf([title_arg |-> title, category |-> category, tags |-> tags,
                 description |-> description, new_content |-> body],
                ParseFrontmatter(Encoded(title, category, tags, description, body)))

NextCodec ==
    /\ last.op = "codec_input"
    /\ RoundTrip(last.title_arg, last.category, last.tags, last.description,
                 last.new_content)

SpecCodec == InitCodec /\ [][NextCodec]_vars

\* The metadata m of the round trip, last_updated set to today's date.
WithLastUpdated(title, category, tags, description) ==
    [kind |-> "map",
     map |-> KeyTitle :> StrValue(title) @@ KeyCategory :> StrValue(category)
                @@ KeyTags :> ListValue([i \in 1..Len(TagList(tags)) |->
                                            StrValue(TagList(tags)[i])])
                @@ KeyDescription :> StrValue(description)
                @@ KeyLastUpdated :> StrValue(Today)]

\* C20: for every metadata mapping m without last_updated and every body,
\* decoding encode(m) followed by the body returns m with last_updated set
\* to today's date as metadata, and the body unchanged.
C20_RoundTrip ==
    last.op = "round_trip" =>
        /\ last.metadata = WithLastUpdated(last.title_arg, last.category,
                                           last.tags, last.description)
        /\ last.content = last.new_content

(***************************************************************************)
(* Documents created from several titles and then read.                    *)
(***************************************************************************)

CreateCalls == 2

TitleTwoWords == <<"A", " ", "B">>

TitlePadded == <<" ", "X">>

TitleSlash == <<"A", "/", "B">>

NoTitle == <<>>

CreateTitles == {CreateTitle, TitleTwoWords, TitlePadded, TitleSlash, NoTitle}

InitCreate == StartState(<<>>)

NextCreate ==
    \/ /\ ncalls < CreateCalls
       /\ \E title \in CreateTitles, category \in Categories,
             description \in CodecDescriptions :
             Create(title, category, CreateTags, description, NoName)
    \/ /\ ncalls < CreateCalls
       /\ \E path \in DOMAIN files \cup {XName} : GetOutline(path)

SpecCreate == InitCreate /\ [][NextCreate]_vars

\* The slug of a title: lower-cased, the spaces replaced by underscores.
SlugOf(title) == ReplaceChar(Lower(title), " ", "_")

\* The outline is the single node "1" of level 1 with the title.
SingleHeading(structure, title) ==
    /\ Len(structure) = 1
    /\ structure[1].id = <<"1">>
    /\ structure[1].level = 1
    /\ structure[1].title = title

\* C21: a successful create_knowledge without name writes the document at
\* {category}/{slug}.md, the slug being the title lower-cased with its
\* spaces replaced by underscores; the document is the encoded frontmatter
\* followed by one top-level heading equal to the title, and its outline is
\* exactly one node, with id "1", level 1 and that title.
C21_CreatedDocument ==
    last.op = "create" /\ last.kind = "ok" /\ last.name = NoName =>
        /\ last.abs = last.category \o Slash \o SlugOf(last.title_arg) \o MdSuffix
        /\ last.abs \in DOMAIN last.post
        /\ StartsWith(last.post[last.abs],
                BuildFrontmatter(last.title_arg, last.category,
                                 TagList(last.tags), last.description, Today))
        /\ SingleHeading(GetOutlineTree(last.post[last.abs]), last.title_arg)

(***************************************************************************)
(* The scenario of the test of the tools: a document is created, a block   *)
(* of sections appended to it, its outline read and a section replaced.    *)
(***************************************************************************)

ScenarioCalls == 4

ReactHooks ==
    <<"R", "e", "a", "c", "t", " ", "H", "o", "o", "k",
      "s">>

Libs == <<"l", "i", "b", "s">>

ScenarioPath ==
    <<"l", "i", "b", "s", "/", "r", "e", "a", "c", "t",
      "_", "h", "o", "o", "k", "s", ".", "m", "d">>

CoreHooksLine ==
    <<"#", "#", " ", "C", "o", "r", "e", " ", "H", "o",
      "o", "k", "s">>

UseStateLine ==
    <<"#", "#", "#", " ", "u", "s", "e", "S", "t", "a",
      "t", "e">>

UseStateText ==
    <<"S", "t", "a", "t", "e", " ", "m", "a", "n", "a",
      "g", "e", "m", "e", "n", "t", ".">>

UseEffectLine ==
    <<"#", "#", "#", " ", "u", "s", "e", "E", "f", "f",
      "e", "c", "t">>

UseEffectText ==
    <<"S", "i", "d", "e", " ", "e", "f", "f", "e", "c",
      "t", "s", ".">>

\* initial_content of the test
InitialContent ==
    CoreHooksLine \o <<"\n">> \o UseStateLine \o <<"\n">> \o UseStateText
        \o <<"\n">> \o UseEffectLine \o <<"\n">> \o UseEffectText \o <<"\n">>

UseState == SubSeq(UseStateLine, 5, Len(UseStateLine))

UseEffect == SubSeq(UseEffectLine, 5, Len(UseEffectLine))

UpdatedText ==
    <<"*", "*", "U", "p", "d", "a", "t", "e", "d", "*",
      "*", " ", "s", "t", "a", "t", "e", " ", "m", "a",
      "n", "a", "g", "e", "m", "e", "n", "t", " ", "c",
      "o", "n", "t", "e", "n", "t", ".">>

\* The new content the test replaces useState with, and the same content
\* without its second line.
ScenarioContents ==
    {UseStateLine \o <<"\n">> \o UpdatedText, UseStateLine}

ScenarioIds == {<<"1">>, <<"1", ".", "1">>, <<"1", ".", "1", ".", "1">>,
                <<"1", ".", "1", ".", "2">>}

ScenarioTitles == {UseState, UseEffect}

\* The document after create_knowledge and the APPEND of the block.
ScenarioDoc(description) ==
    Appended(NewDocument(ReactHooks, Libs, CreateTags, description),
             InitialContent)

InitScenario == StartState(<<>>)

NextScenario ==
    \/ /\ ncalls = 0
       /\ \E description \in CodecDescriptions :
             Create(ReactHooks, Libs, CreateTags, description, NoName)
    \/ /\ ncalls = 1
       /\ UpdBegin(1, ScenarioPath, AppendId, AppendId, InitialContent)
    \/ /\ ncalls >= 2 /\ ncalls < ScenarioCalls /\ AllIdle
       /\ GetOutline(ScenarioPath)
    \/ /\ ncalls >= 2 /\ ncalls < ScenarioCalls
       /\ \E node_id \in ScenarioIds, expected_title \in ScenarioTitles,
             new_content \in ScenarioContents :
             UpdBegin(1, ScenarioPath, node_id, expected_title, new_content)
    \/ UpdSteps(1)

SpecScenario == InitScenario /\ [][NextScenario]_vars

\* The ids of the nodes of an outline, in its order.
IdsIn(structure) == [i \in 1..Len(structure) |-> structure[i].id]

\* The index of the line in lines, counted from 0.
LineIndex(lines, line) ==
    SetMin({i \in 1..Len(lines) : lines[i] = line}) - 1

\* The content is the document of the scenario before any replacement.
IsScenarioDoc(content) ==
    \E description \in CodecDescriptions : content = ScenarioDoc(description)

\* C22: after create_knowledge of libs/react_hooks.md with the title "React
\* Hooks" and the APPEND of the block, the outline has the ids 1, 1.1, 1.1.1
\* and 1.1.2; the update of 1.1.1 with the expected title useState then
\* succeeds and replaces the lines from the heading of useState up to, and
\* without, the heading of useEffect, which stays with its content.
C22_Scenario ==
    /\ (last.op = "get_outline" /\ IsScenarioDoc(last.pre[ScenarioPath])) =>
          /\ last.kind = "ok"
          /\ IdsIn(last.structure) = <<<<"1">>, <<"1", ".", "1">>,
                                       <<"1", ".", "1", ".", "1">>,
                                       <<"1", ".", "1", ".", "2">> >>
    /\ (/\ last.op = "update"
        /\ last.node_id = <<"1", ".", "1", ".", "1">>
        /\ last.expected_title = UseState
        /\ IsScenarioDoc(last.content)) =>
          /\ last.kind = "ok"
          /\ last.update_start = LineIndex(SplitLines(last.content), UseStateLine)
          /\ last.update_end = LineIndex(SplitLines(last.content), UseEffectLine)
          /\ SplitLines(last.post[ScenarioPath]) =
                SubSeq(SplitLines(last.content), 1, last.update_start)
                   \o SplitLines(last.new_content)
                   \o <<UseEffectLine, UseEffectText>>

\* useState of the scenario's document was replaced.
C22_Witness ==
    /\ last.op = "update"
    /\ last.kind = "ok"
    /\ last.node_id = <<"1", ".", "1", ".", "1">>
    /\ last.expected_title = UseState
    /\ IsScenarioDoc(last.content)

(***************************************************************************)
(* A document is outlined and one of the sections its outline reports is   *)
(* replaced, addressed by the id and the title the outline gave.           *)
(***************************************************************************)

MaxAddressLines == 3

BlankLine == <<>>

AddressLines == {LineA, LineB, LineText, BlankLine}

AddressContents == {<<>>, LineB \o <<"\n">> \o LineText}

InitAddress ==
    \E d \in DocsOf(AddressLines, MaxAddressLines) : StartState(DocPath :> d)

NextAddress ==
    \/ /\ ncalls = 0
       /\ GetOutline(DocPath)
    \/ /\ ncalls = 1 /\ cache.valid
       /\ \E n \in 1..Len(cache.structure), new_content \in AddressContents :
             UpdBegin(1, DocPath, cache.structure[n].id,
                      cache.structure[n].title, new_content)
    \/ /\ ncalls = 1 /\ cache.valid
       /\ \E new_content \in AddressContents :
             UpdBegin(1, DocPath, AppendId, AppendId, new_content)
    \/ UpdSteps(1)

SpecAddress == InitAddress /\ [][NextAddress]_vars

\* update_knowledge_section has replaced a section and returned success.
Replaced ==
    last.op = "update" /\ last.kind = "ok" /\ last.node_id # AppendId

\* C23: after a successful replacement the document ends with a newline
\* whenever it ended with one before, whatever the section and the new
\* content, the empty content and the last section included.
C23_FinalNewlineKept ==
    Replaced /\ EndsWith(last.pre[last.abs], <<"\n">>) =>
        EndsWith(last.post[last.abs], <<"\n">>)

\* The last section of a document that ends with a newline was replaced by
\* the empty content.
C23_Witness ==
    /\ Replaced
    /\ EndsWith(last.pre[last.abs], <<"\n">>)
    /\ last.new_content = <<>>
    /\ last.update_end = Len(SplitLines(last.pre[last.abs]))
    /\ last.update_start > 0

\* C25: a successful replacement changes the target range only: the lines
\* before the target heading and the lines from the end of the range on are
\* those of before, in their order, and between them are the lines of the
\* new content as they were given.
C25_OnlyTargetChanged ==
    Replaced =>
        SplitLines(last.post[last.abs]) =
            SubSeq(SplitLines(last.pre[last.abs]), 1, last.update_start)
               \o SplitLines(last.new_content)
               \o SubSeq(SplitLines(last.pre[last.abs]), last.update_end + 1,
                         Len(SplitLines(last.pre[last.abs])))

\* The nodes of the outline read that carry the id and the title the update
\* was called with.
AddressedNodes ==
    {n \in 1..Len(cache.structure) :
        /\ cache.structure[n].id = last.node_id
        /\ cache.structure[n].title = last.expected_title}

\* C26: the outline and the editor address the sections alike: an update
\* called with the id and the title of a node that get_file_outline
\* reported passes the lock and replaces the range that starts at the line
\* of that node's heading.
C26_OutlineAddressesEditor ==
    last.op = "update" /\ last.node_id # AppendId =>
        /\ last.kind = "ok"
        /\ AddressedNodes # {}
        /\ \A n \in AddressedNodes :
              cache.structure[n].line_start = last.update_start + 1

\* A section below the first heading of a document of several headings was
\* replaced.
C26_Witness ==
    /\ Replaced
    /\ Len(cache.structure) > 1
    /\ last.node_id # cache.structure[1].id

(***************************************************************************)
(* ConfigLoader (src/src/config.py) and resolve_model                      *)
(* (src/src/model_resolver.py).  A configuration file is modelled by the   *)
(* YAML document it holds: a mapping whose keys and strings are texts, or  *)
(* a text that is not YAML.                                                *)
(***************************************************************************)
\* The keys and the literal texts of config.py and model_resolver.py, each
\* a sequence of characters.
Word ==
    [global |->
         <<"g", "l", "o", "b", "a", "l">>,
     auto |->
         <<"a", "u", "t", "o">>,
     pro |->
         <<"p", "r", "o">>,
     gemini_pro |->
         <<"g", "e", "m", "i", "n", "i", "-", "2", ".", "5",
             "-", "p", "r", "o">>,
     flash |->
         <<"f", "l", "a", "s", "h">>,
     gemini_flash |->
         <<"g", "e", "m", "i", "n", "i", "-", "2", ".", "5",
             "-", "f", "l", "a", "s", "h">>,
     flash_lite_alias |->
         <<"f", "l", "a", "s", "h", "-", "l", "i", "t", "e">>,
     stable |->
         <<"s", "t", "a", "b", "l", "e">>,
     flash_lite |->
         <<"f", "l", "a", "s", "h", "_", "l", "i", "t", "e">>,
     gemini_flash_lite |->
         <<"g", "e", "m", "i", "n", "i", "-", "2", ".", "5",
             "-", "f", "l", "a", "s", "h", "-", "l", "i", "t",
             "e">>,
     preview |->
         <<"p", "r", "e", "v", "i", "e", "w">>,
     true_text |->
         <<"t", "r", "u", "e">>,
     model_registry |->
         <<"m", "o", "d", "e", "l", "_", "r", "e", "g", "i",
             "s", "t", "r", "y">>,
     use_preview_models |->
         <<"u", "s", "e", "_", "p", "r", "e", "v", "i", "e",
             "w", "_", "m", "o", "d", "e", "l", "s">>,
     tools |->
         <<"t", "o", "o", "l", "s">>,
     sandbox |->
         <<"s", "a", "n", "d", "b", "o", "x">>,
     name |->
         <<"n", "a", "m", "e">>,
     description |->
         <<"d", "e", "s", "c", "r", "i", "p", "t", "i", "o",
             "n">>,
     system_prompt |->
         <<"s", "y", "s", "t", "e", "m", "_", "p", "r", "o",
             "m", "p", "t">>,
     model |->
         <<"m", "o", "d", "e", "l">>,
     sub_cwd |->
         <<"s", "u", "b", "_", "c", "w", "d">>,
     allowed_mcp_servers |->
         <<"a", "l", "l", "o", "w", "e", "d", "_", "m", "c",
             "p", "_", "s", "e", "r", "v", "e", "r", "s">>,
     permission_set |->
         <<"p", "e", "r", "m", "i", "s", "s", "i", "o", "n",
             "_", "s", "e", "t">>,
     agents |->
         <<"a", "g", "e", "n", "t", "s">>,
     permission_sets |->
         <<"p", "e", "r", "m", "i", "s", "s", "i", "o", "n",
             "_", "s", "e", "t", "s">>]

\* A dict of the configuration.
MapValue(map) == [t |-> "map", v |-> map]

\* A bool of the configuration.
BoolValue(b) == [t |-> "bool", v |-> b]

\* d.get(key, default) on a dict of the configuration
ConfigGet(d, key, default) ==
    IF d.t = "map" /\ key \in DOMAIN d.v THEN d.v[key] ELSE default

\* The truth value Python gives a value of the configuration.
Truthy(value) ==
    IF value.t = "bool" THEN value.v
    ELSE IF value.t = "null" THEN FALSE
    ELSE IF value.t = "map" THEN DOMAIN value.v # {}
    ELSE value.v # <<>>

\* The last index of the longest run of characters outside stops that
\* starts at i (i - 1 when the run is empty): a greedy [^...]+ of line 67.
RECURSIVE RunEnd(_, _, _)
RunEnd(s, i, stops) ==
    IF i > Len(s) \/ s[i] \in stops THEN i - 1 ELSE RunEnd(s, i + 1, stops)

\* The match of \$\{([^}:]+)(:([^}]+))?\} (line 67) that begins at i: the
\* name ends at n and the default, if there is one, at d.
PlaceholderAt(s, i) ==
    LET n == RunEnd(s, i + 2, {"}", ":"})
        d == RunEnd(s, n + 2, {"}"})
    IN  IF ~(i + 1 <= Len(s) /\ s[i] = "$" /\ s[i + 1] = "{")
        THEN [ok |-> FALSE]
        ELSE IF n < i + 2 \/ n + 1 > Len(s) THEN [ok |-> FALSE]
        ELSE IF s[n + 1] = "}"
        THEN [ok |-> TRUE, var_name |-> SubSeq(s, i + 2, n),
              default_value |-> <<>>, end |-> n + 1]
        ELSE IF d >= n + 2 /\ d + 1 <= Len(s)
        THEN [ok |-> TRUE, var_name |-> SubSeq(s, i + 2, n),
              default_value |-> SubSeq(s, n + 2, d), end |-> d + 1]
        ELSE [ok |-> FALSE]

\* env_sub (lines 69-73): the variable of env, else the default, else "".
EnvSub(match, env) ==
    IF match.var_name \in DOMAIN env THEN env[match.var_name]
    ELSE match.default_value

\* pattern.sub(env_sub, value) of line 75, from index i on.
RECURSIVE SubFrom(_, _, _)
SubFrom(s, i, env) ==
    LET match == PlaceholderAt(s, i)
    IN  IF i > Len(s) THEN <<>>
        ELSE IF match.ok
        THEN EnvSub(match, env) \o SubFrom(s, match.end + 1, env)
        ELSE <<s[i]>> \o SubFrom(s, i + 1, env)

\* _resolve_with_env (lines 63-84)
RECURSIVE ResolveWithEnv(_, _)
ResolveWithEnv(value, env) ==
    IF value.t = "str" THEN StrValue(SubFrom(value.v, 1, env))
    ELSE IF value.t = "map"
    THEN MapValue([k \in DOMAIN value.v |-> ResolveWithEnv(value.v[k], env)])
    ELSE IF value.t = "list"
    THEN ListValue([k \in 1..Len(value.v) |-> ResolveWithEnv(value.v[k], env)])
    ELSE value

\* run_env of lines 91-93 and 144-146: os.environ updated with the
\* overrides of the call.
RunEnv(environ, env_overrides) == env_overrides @@ environ

\* get_global_settings (lines 86-95) on an instance whose attributes are in
\* ld, with os.environ as environ.
GetGlobalSettingsOf(ld, environ, env_overrides) ==
    ResolveWithEnv(ConfigGet(ld._config_cache, Word.global, MapValue(<<>>)),
                   RunEnv(environ, env_overrides))

\* resolve_model (model_resolver.py lines 27-40)
ResolveModel(alias, registry, use_preview) ==
    LET tier == IF use_preview THEN Word.preview ELSE Word.stable
    IN  IF alias = StrValue(Word.auto)
        THEN ConfigGet(ConfigGet(registry, Word.auto, MapValue(<<>>)), tier,
                       StrValue(Word.auto))
        ELSE IF alias = StrValue(Word.pro)
        THEN ConfigGet(ConfigGet(registry, tier, MapValue(<<>>)), Word.pro,
                       StrValue(Word.gemini_pro))
        ELSE IF alias = StrValue(Word.flash)
        THEN ConfigGet(ConfigGet(registry, tier, MapValue(<<>>)), Word.flash,
                       StrValue(Word.gemini_flash))
        ELSE IF alias = StrValue(Word.flash_lite_alias)
        THEN ConfigGet(ConfigGet(registry, Word.stable, MapValue(<<>>)),
                       Word.flash_lite, StrValue(Word.gemini_flash_lite))
        ELSE alias

\* resolve_model_alias (lines 97-105) with the global settings at hand;
\* use_preview is str(use_preview_str).lower() == "true".
ResolveModelAlias(alias, global_settings) ==
    LET use_preview_str ==
            ConfigGet(global_settings, Word.use_preview_models,
                      StrValue(Word.true_text))
    IN  ResolveModel(
            alias,
            ConfigGet(global_settings, Word.model_registry, MapValue(<<>>)),
            IF use_preview_str.t = "bool" THEN use_preview_str.v
            ELSE /\ use_preview_str.t = "str"
                 /\ Lower(use_preview_str.v) = Word.true_text)

\* Lines 131-137: the tools without repetitions, in their order.
RECURSIVE UniqueTools(_, _)
UniqueTools(combined_tools, unique_tools) ==
    IF combined_tools = <<>> THEN unique_tools
    ELSE UniqueTools(Tail(combined_tools),
                     IF \E k \in 1..Len(unique_tools) :
                            unique_tools[k] = combined_tools[1]
                     THEN unique_tools
                     ELSE Append(unique_tools, combined_tools[1]))

\* _resolve_permission_sets (lines 107-139), set_names already a list.
RECURSIVE CombineSets(_, _, _, _)
CombineSets(set_names, permission_sets, combined_tools, sandbox) ==
    IF set_names = <<>>
    THEN [kind |-> "ok", tools |-> UniqueTools(combined_tools, <<>>),
          sandbox |-> sandbox]
    ELSE IF set_names[1].v \notin DOMAIN permission_sets.v
    THEN [kind |-> "ValueError"]
    ELSE CombineSets(
            Tail(set_names), permission_sets,
            combined_tools
                \o ConfigGet(permission_sets.v[set_names[1].v], Word.tools,
                             ListValue(<<>>)).v,
            sandbox \/ Truthy(ConfigGet(permission_sets.v[set_names[1].v],
                                        Word.sandbox, BoolValue(FALSE))))

ResolvePermissionSets(set_names, permission_sets) ==
    CombineSets(IF set_names.t = "str" THEN <<set_names>> ELSE set_names.v,
                permission_sets, <<>>, FALSE)

\* Lines 157-183 of get_agent_config: the AgentConfig built of the resolved
\* definition of the agent, or the ValueError of its permission sets.
AgentConfigOf(agent_def, permission_sets, global_settings) ==
    LET pset ==
            IF Truthy(ConfigGet(agent_def, Word.permission_set, NullValue))
            THEN ResolvePermissionSets(agent_def.v[Word.permission_set],
                                       permission_sets)
            ELSE [kind |-> "ok", tools |-> <<>>, sandbox |-> FALSE]
    IN  IF pset.kind # "ok" THEN [kind |-> "ValueError"]
        ELSE [kind |-> "ok",
              name |-> agent_def.v[Word.name],
              description |->
                  ConfigGet(agent_def, Word.description, StrValue(<<>>)),
              tools |-> pset.tools,
              system_prompt |->
                  ConfigGet(agent_def, Word.system_prompt, StrValue(<<>>)),
              model |->
                  ResolveModelAlias(
                      IF Truthy(ConfigGet(agent_def, Word.model, NullValue))
                      THEN agent_def.v[Word.model] ELSE StrValue(Word.auto),
                      global_settings),
              sandbox |-> pset.sandbox,
              sub_cwd |-> ConfigGet(agent_def, Word.sub_cwd, NullValue),
              allowed_mcp_servers |->
                  ConfigGet(agent_def, Word.allowed_mcp_servers, NullValue)]

\* Lines 148-152: the first agent of the list with the name asked for.
AgentsNamed(agents, agent_name) ==
    {k \in 1..Len(agents.v) : agents.v[k].v[Word.name] = StrValue(agent_name)}

\* get_agent_config (lines 141-183) on an instance whose attributes are in
\* ld, with os.environ as environ.
GetAgentConfigOf(ld, environ, agent_name, env_overrides) ==
    IF AgentsNamed(ConfigGet(ld._config_cache, Word.agents, ListValue(<<>>)),
                   agent_name) = {}
    THEN [kind |-> "ValueError"]
    ELSE AgentConfigOf(
            ResolveWithEnv(
                ld._config_cache.v[Word.agents].v[
                    SetMin(AgentsNamed(ld._config_cache.v[Word.agents],
                                       agent_name))],
                RunEnv(environ, env_overrides)),
            ConfigGet(ld._config_cache, Word.permission_sets, MapValue(<<>>)),
            GetGlobalSettingsOf(ld, environ, env_overrides))

\* Line 36-37: the directory above the one that holds config.py.
ProjectRoot == <<"/", "p">>

\* Lines 34-40: a relative path is taken from the project root.
ConfigPathOf(config_path) ==
    IF config_path # <<>> /\ config_path[1] = "/" THEN config_path
    ELSE ProjectRoot \o <<"/">> \o config_path

\* load_config (lines 46-61) of the path on the disk: FileNotFoundError when
\* no file is there, ValueError when the file is not YAML, else the
\* document.
LoadConfig(disk, path) ==
    IF path \notin DOMAIN disk THEN [kind |-> "FileNotFoundError"]
    ELSE IF ~disk[path].valid THEN [kind |-> "ValueError"]
    ELSE [kind |-> "ok", config |-> disk[path].doc]

\* ConfigLoader(config_path) on the class in the state ld, the files being
\* disk: __new__ (lines 24-27) gives the one instance, and __init__ (lines
\* 29-44) returns at once when the class is initialized; else it sets the
\* path and the empty cache before load_config, and _initialized only
\* after load_config has returned.  The kind of the outcome and the class
\* after it.
ConstructOn(ld, disk, config_path) ==
    LET loaded == LoadConfig(disk, ConfigPathOf(config_path))
    IN  IF ld._initialized THEN [kind |-> "ok", loader |-> ld]
        ELSE [kind |-> loaded.kind,
              loader |->
                  [_instance |-> TRUE, _initialized |-> loaded.kind = "ok",
                   config_path |-> ConfigPathOf(config_path),
                   _config_cache |-> IF loaded.kind = "ok" THEN loaded.config
                                     ELSE MapValue(<<>>)]]

\* loader = ConfigLoader(config_path)
Construct(config_path) ==
    /\ loader' = ConstructOn(loader, configs, config_path).loader
    /\ last' = Ret([op |-> "ConfigLoader", config_path |-> config_path,
                    kind |-> ConstructOn(loader, configs, config_path).kind])
    /\ ncalls' = ncalls + 1
    /\ UNCHANGED <<files, dirs, clock, pc, call, loc, cache, configs>>

\* loader.get_global_settings(env_overrides), on a loader a construction
\* has returned.
GetGlobalSettings(environ, env_overrides) ==
    /\ loader._initialized
    /\ last' = Ret([op |-> "get_global_settings", kind |-> "ok",
                    env_overrides |-> env_overrides,
                    settings |->
                        GetGlobalSettingsOf(loader, environ, env_overrides)])
    /\ ncalls' = ncalls + 1
    /\ UNCHANGED <<files, dirs, clock, pc, call, loc, cache, configs, loader>>

\* loader.get_agent_config(agent_name, env_overrides), on a loader a
\* construction has returned.
GetAgentConfig(environ, agent_name, env_overrides) ==
    /\ loader._initialized
    /\ last' = Ret([op |-> "get_agent_config", agent_name |-> agent_name,
                    env_overrides |-> env_overrides,
                    agent |-> GetAgentConfigOf(loader, environ, agent_name,
                                               env_overrides)])
    /\ ncalls' = ncalls + 1
    /\ UNCHANGED <<files, dirs, clock, pc, call, loc, cache, configs, loader>>

(***************************************************************************)
(* SpecConfig: constructions of ConfigLoader with several paths in one     *)
(* process, and the settings and agents the loaders serve.                 *)
(***************************************************************************)
ConfigCalls == 3

\* Two configuration files given by absolute paths, the default
\* agents.yaml of the project root, and a relative path with no file.
FirstYaml == <<"/", "t", "/", "a", ".", "y", "a", "m", "l">>

SecondYaml == <<"/", "t", "/", "b", ".", "y", "a", "m", "l">>

AgentsYaml == <<"a", "g", "e", "n", "t", "s", ".", "y", "a", "m", "l">>

NonExistentYaml == <<"n", ".", "y", "a", "m", "l">>

ConfigPaths == {FirstYaml, SecondYaml, AgentsYaml, NonExistentYaml}

VarX == <<"X">>

\* os.environ of the process
Environ == VarX :> <<"e">>

ConfigOverrides == {<<>>, VarX :> <<"o">>}

AgentT == <<"t">>

AgentU == <<"u">>

AgentNames == {AgentT, AgentU, <<"n">>}

\* Keys of the global settings.
OutputFormat ==
    <<"o", "u", "t", "p", "u", "t", "_", "f", "o", "r",
      "m", "a", "t">>

TestValue == <<"t", "e", "s", "t", "_", "v", "a", "l", "u", "e">>

DefaultValue ==
    <<"d", "e", "f", "a", "u", "l", "t", "_", "v", "a",
      "l", "u", "e">>

SetR == <<"r">>

SetW == <<"w">>

\* global:
\*   model_registry: {preview: {flash: g3}, stable: {flash: g2}}
\*   use_preview_models: "true"
\*   output_format: json
\*   test_value: "${X}"
\*   default_value: "${N:fb}"
\* permission_sets:
\*   r: {tools: [a, b]}
\*   w: {tools: [b, c], sandbox: true}
\* agents:
\*   - {name: t, description: "${X}", permission_set: [r, w], model: flash}
\*   - {name: u, permission_set: r, sub_cwd: d}
MainDoc ==
    MapValue(
        Word.global :> MapValue(
            Word.model_registry :> MapValue(
                Word.preview :> MapValue(Word.flash :> StrValue(<<"g", "3">>))
                @@ Word.stable
                    :> MapValue(Word.flash :> StrValue(<<"g", "2">>)))
            @@ Word.use_preview_models :> StrValue(Word.true_text)
            @@ OutputFormat :> StrValue(<<"j", "s", "o", "n">>)
            @@ TestValue :> StrValue(<<"$", "{", "X", "}">>)
            @@ DefaultValue :> StrValue(<<"$", "{", "N", ":", "f", "b", "}">>))
        @@ Word.permission_sets :> MapValue(
            SetR :> MapValue(
                Word.tools
                    :> ListValue(<<StrValue(<<"a">>), StrValue(<<"b">>)>>))
            @@ SetW :> MapValue(
                Word.tools
                    :> ListValue(<<StrValue(<<"b">>), StrValue(<<"c">>)>>)
                @@ Word.sandbox :> BoolValue(TRUE)))
        @@ Word.agents :> ListValue(<<
            MapValue(
                Word.name :> StrValue(AgentT)
                @@ Word.description :> StrValue(<<"$", "{", "X", "}">>)
                @@ Word.permission_set
                    :> ListValue(<<StrValue(SetR), StrValue(SetW)>>)
                @@ Word.model :> StrValue(Word.flash)),
            MapValue(
                Word.name :> StrValue(AgentU)
                @@ Word.permission_set :> StrValue(SetR)
                @@ Word.sub_cwd :> StrValue(<<"d">>))>>))

\* global:
\*   use_preview_models: false
\*   output_format: text
\*   test_value: "${X:}${N}"
\* agents:
\*   - {name: t, model: "${X}"}
\*   - {name: u, permission_set: w}
OtherDoc ==
    MapValue(
        Word.global :> MapValue(
            Word.use_preview_models :> BoolValue(FALSE)
            @@ OutputFormat :> StrValue(<<"t", "e", "x", "t">>)
            @@ TestValue
                :> StrValue(<<"$", "{", "X", ":", "}", "$", "{", "N", "}">>))
        @@ Word.agents :> ListValue(<<
            MapValue(
                Word.name :> StrValue(AgentT)
                @@ Word.model :> StrValue(<<"$", "{", "X", "}">>)),
            MapValue(
                Word.name :> StrValue(AgentU)
                @@ Word.permission_set :> StrValue(SetW))>>))

\* The files a configuration path may hold: the two documents and a text
\* yaml.safe_load rejects.
ConfigFiles ==
    {[valid |-> TRUE, doc |-> MainDoc], [valid |-> TRUE, doc |-> OtherDoc],
     [valid |-> FALSE, doc |-> MapValue(<<>>)]}

ConfigDisks ==
    UNION {[present -> ConfigFiles] :
             present \in SUBSET {FirstYaml, SecondYaml,
                                 ConfigPathOf(AgentsYaml)}}

InitConfig ==
    /\ files = <<>>
    /\ dirs = {}
    /\ clock = 0
    /\ pc = [p \in Procs |-> "idle"]
    /\ call = [p \in Procs |-> NoCall]
    /\ loc = [p \in Procs |-> NoLoc]
    /\ last = Ret([op |-> "start"])
    /\ cache = NoCache
    /\ configs \in ConfigDisks
    /\ loader = NoLoader
    /\ ncalls = 0

NextConfig ==
    /\ ncalls < ConfigCalls
    /\ \/ \E config_path \in ConfigPaths : Construct(config_path)
       \/ \E env_overrides \in ConfigOverrides :
             GetGlobalSettings(Environ, env_overrides)
       \/ \E agent_name \in AgentNames, env_overrides \in ConfigOverrides :
             GetAgentConfig(Environ, agent_name, env_overrides)

SpecConfig == InitConfig /\ [][NextConfig]_vars

\* What a loader constructed with config_path before any other serves.
LoaderOf(config_path) == ConstructOn(NoLoader, configs, config_path).loader

\* C24: a ConfigLoader constructed with path P serves the configuration
\* stored at P whatever constructions preceded it: the construction raises
\* FileNotFoundError when no file is at P, and when P holds a configuration
\* the construction returns and get_global_settings and get_agent_config
\* of the loader give what they give of the configuration at P.
C24_ServesItsPath ==
    last.op = "ConfigLoader" =>
        /\ ConfigPathOf(last.config_path) \notin DOMAIN configs
              => last.kind = "FileNotFoundError"
        /\ LoadConfig(configs, ConfigPathOf(last.config_path)).kind = "ok"
              => /\ last.kind = "ok"
                 /\ \A env_overrides \in ConfigOverrides :
                       /\ GetGlobalSettingsOf(loader, Environ, env_overrides)
                          = GetGlobalSettingsOf(LoaderOf(last.config_path),
                                                Environ, env_overrides)
                       /\ \A agent_name \in AgentNames :
                             GetAgentConfigOf(loader, Environ, agent_name,
                                              env_overrides)
                             = GetAgentConfigOf(LoaderOf(last.config_path),
                                                Environ, agent_name,
                                                env_overrides)

(***************************************************************************)
(* The order of the ids of an outline (SpecOutline)                        *)
(***************************************************************************)
\* The integer a decimal numeral stands for.
RECURSIVE NumeralValue(_)
NumeralValue(s) ==
    IF s = <<>> THEN 0
    ELSE 10 * NumeralValue(SubSeq(s, 1, Len(s) - 1))
         + (CHOOSE d \in 1..10 : Digit[d] = s[Len(s)]) - 1

\* An id read as a vector of counters, padded with zeros to MaxLevel.
CounterVector(id) ==
    [l \in 1..MaxLevel |->
        IF l <= Len(Components(id)) THEN NumeralValue(Components(id)[l])
        ELSE 0]

\* u comes before v in the lexicographic order.
VectorLess(u, v) ==
    \E l \in 1..MaxLevel :
        /\ u[l] < v[l]
        /\ \A j \in 1..(l - 1) : u[j] = v[j]

\* C27: within one outline the ids are pairwise distinct and, read as
\* vectors of counters padded with zeros, strictly increase in the order of
\* the document; so an id addresses at most one heading.
C27_IdsIncrease ==
    (last.op = "get_outline" /\ last.kind = "ok") =>
        /\ \A j, k \in 1..Len(last.structure) :
              j # k => last.structure[j].id # last.structure[k].id
        /\ \A k \in 1..(Len(last.structure) - 1) :
              VectorLess(CounterVector(last.structure[k].id),
                         CounterVector(last.structure[k + 1].id))

\* C27's case: an outline of at least three headings was read in which one
\* heading is followed by a shallower one and one of a level occurs twice.
C27_Witness ==
    /\ last.op = "get_outline"
    /\ last.kind = "ok"
    /\ Len(last.structure) >= 3
    /\ \E k \in 1..(Len(last.structure) - 1) :
          last.structure[k + 1].level < last.structure[k].level
    /\ \E j, k \in 1..Len(last.structure) :
          j # k /\ last.structure[j].level = last.structure[k].level

(***************************************************************************)
(* SpecHistory: updates and views of two documents whose paths differ in   *)
(* "/" and "_" only, through several spellings of their paths.             *)
(***************************************************************************)
HistoryCalls == 2

\* The document a_x.md of the knowledge root, next to a/x.md.
UnderscorePath == <<"a", "_", "x", ".", "m", "d">>

UnderscoreDoc == HeadingB \o <<"\n">>

\* Spellings of a/x.md: between blanks, and its bare file name.
PaddedPath == <<" ">> \o DocPath \o <<" ">>

BarePath == <<"x", ".", "m", "d">>

\* No document has this path.
MissingPath == <<"a", "/", "y", ".", "m", "d">>

\* A path above the knowledge root whose file name no document has.
OutsideMissing == <<".", ".", "/", "y", ".", "m", "d">>

HistoryPaths ==
    {DocPath, SlashPath, PaddedPath, BarePath, UnderscorePath, OutsideMissing,
     MissingPath}

HistoryNodeIds == {<<"1">>, <<"2">>, AppendId}

HistoryTitles == {TitleA, <<"B">>}

InitHistory ==
    StartState(DocPath :> StartDoc @@ UnderscorePath :> UnderscoreDoc)

NextHistory ==
    \/ /\ AllIdle /\ ncalls < HistoryCalls
       /\ \E path \in HistoryPaths, node_id \in HistoryNodeIds,
             expected_title \in HistoryTitles :
             UpdBegin(1, path, node_id, expected_title,
                      HeadingAB \o <<"\n">> \o LineText)
    \/ /\ AllIdle /\ ncalls < HistoryCalls
       /\ \E path \in HistoryPaths : ViewChanges(path)
    \/ UpdSteps(1)
    \/ AllIdle /\ Tick

SpecHistory == InitHistory /\ [][NextHistory]_vars

\* The snapshots among the files fs, with their contents.
HistoryOf(fs) == [f \in {g \in DOMAIN fs : IsSnapshot(g)} |-> fs[f]]

\* The last call was an update_knowledge_section that failed.
UpdateFailed ==
    /\ last.op = "update"
    /\ last.kind \in {"LockMismatch", "SectionNotFound", "NotFound",
                      "PathTraversal"}

\* C28: an update_section call that fails with LockMismatch,
\* SectionNotFound, NotFound or a path error leaves the snapshot history as
\* it was, and the documents too.
C28_FailedUpdateKeepsHistory ==
    (AllIdle /\ UpdateFailed) =>
        /\ HistoryOf(last.post) = HistoryOf(last.pre)
        /\ last.post = last.pre

\* C29: history streams are per document.  After an update has captured a
\* snapshot of one document, view_changes of any other document, by
\* whatever path it is named, does not diff against that snapshot, and the
\* snapshot does not lie in the history directory of the other document.
C29_HistoryPerDocument ==
    (AllIdle /\ last.op = "update" /\ last.kind = "ok") =>
        \A path \in HistoryPaths :
            (/\ ResolveAndValidate(files, dirs, path).kind = "ok"
             /\ Exists(files, dirs, ResolveAndValidate(files, dirs, path).abs)
             /\ ResolveAndValidate(files, dirs, path).abs # last.abs) =>
                /\ ~StartsWith(last.snap,
                      HistoryDirOf(ResolveAndValidate(files, dirs,
                                                      path).resolved) \o Slash)
                /\ ViewResult(files, dirs, path).kind = "ok"
                      => ViewResult(files, dirs, path).snap_used # last.snap

\* The paths of HistoryPaths that name the document the last call worked
\* on.
SpellingsOfLast ==
    {path \in HistoryPaths :
        /\ ResolveAndValidate(files, dirs, path).kind = "ok"
        /\ ResolveAndValidate(files, dirs, path).abs = last.abs}

\* C30: the history of a document does not depend on the spelling of its
\* path.  After a successful update_section through one spelling,
\* view_changes through every spelling of the same document does not report
\* NoHistory but diffs against the snapshot that update took.
C30_HistoryOfAnySpelling ==
    (AllIdle /\ last.op = "update" /\ last.kind = "ok") =>
        \A path \in SpellingsOfLast :
            /\ ViewResult(files, dirs, path).kind # "NoHistory"
            /\ ViewResult(files, dirs, path).kind = "ok"
                  => ViewResult(files, dirs, path).snap_used = last.snap

=============================================================================
